---- MODULE Spec2Model ----
(***************************************************************************)
(* los-memory: the observation store of memory_tool.                       *)
(*                                                                         *)
(* The model covers the schema manager (database.py), the full-text index  *)
(* kept by SQLite triggers (database.py, ensure_fts / rebuild_fts), the    *)
(* tag canonicalizer (utils.py) and the observation operations             *)
(* (operations.py).                                                        *)
(*                                                                         *)
(* Text is a sequence of one-character strings, so that splitting,         *)
(* stemming, JSON encoding and substring search are computed, not assumed. *)
(***************************************************************************)
EXTENDS Integers, Sequences, FiniteSets, TLC

(***************************************************************************)
(* Text helpers                                                            *)
(***************************************************************************)

UPPER == <<"A", "B", "C", "D", "E", "F", "G", "H", "I", "J", "K", "L", "M",
           "N", "O", "P", "Q", "R", "S", "T", "U", "V", "W", "X", "Y", "Z">>

LOWER == <<"a", "b", "c", "d", "e", "f", "g", "h", "i", "j", "k", "l", "m",
           "n", "o", "p", "q", "r", "s", "t", "u", "v", "w", "x", "y", "z">>

DIGITS == {"0", "1", "2", "3", "4", "5", "6", "7", "8", "9"}

WHITESPACE == {" ", "\t", "\n"}

Range(s) == {s[i] : i \in DOMAIN s}

\* str.lower() on one character
LowerChar(c) ==
  IF \E i \in DOMAIN UPPER : UPPER[i] = c
  THEN LOWER[CHOOSE i \in DOMAIN UPPER : UPPER[i] = c]
  ELSE c

\* str.lower()
Lower(s) == [i \in DOMAIN s |-> LowerChar(s[i])]

\* str.strip(): drop leading and trailing whitespace
RECURSIVE LStrip(_)
LStrip(s) ==
  IF s # <<>> /\ Head(s) \in WHITESPACE THEN LStrip(Tail(s)) ELSE s

RECURSIVE RStrip(_)
RStrip(s) ==
  IF s # <<>> /\ s[Len(s)] \in WHITESPACE
  THEN RStrip(SubSeq(s, 1, Len(s) - 1))
  ELSE s

Strip(s) == RStrip(LStrip(s))

\* re.sub(r"\s+", " ", value): every run of whitespace becomes one space
RECURSIVE CollapseWs(_, _)
CollapseWs(s, inRun) ==
  IF s = <<>> THEN <<>>
  ELSE IF Head(s) \in WHITESPACE
       THEN (IF inRun THEN <<>> ELSE <<" ">>) \o CollapseWs(Tail(s), TRUE)
       ELSE <<Head(s)>> \o CollapseWs(Tail(s), FALSE)

\* utils.normalize_text
normalize_text(value) == Strip(CollapseWs(value, FALSE))

\* str.endswith
EndsWith(s, suffix) ==
  /\ Len(s) >= Len(suffix)
  /\ SubSeq(s, Len(s) - Len(suffix) + 1, Len(s)) = suffix

\* str.startswith
StartsWith(s, prefix) ==
  /\ Len(s) >= Len(prefix)
  /\ SubSeq(s, 1, Len(prefix)) = prefix

\* needle in haystack
Contains(hay, needle) ==
  \E i \in 0..(Len(hay) - Len(needle)) :
    SubSeq(hay, i + 1, i + Len(needle)) = needle

\* str.split(sep) for a one-character separator
RECURSIVE SplitOn(_, _, _)
SplitOn(s, sep, cur) ==
  IF s = <<>> THEN <<cur>>
  ELSE IF Head(s) = sep
       THEN <<cur>> \o SplitOn(Tail(s), sep, <<>>)
       ELSE SplitOn(Tail(s), sep, Append(cur, Head(s)))

\* sep.join(parts)
RECURSIVE Join(_, _)
Join(parts, sep) ==
  IF parts = <<>> THEN <<>>
  ELSE IF Len(parts) = 1 THEN parts[1]
       ELSE parts[1] \o sep \o Join(Tail(parts), sep)

(***************************************************************************)
(* utils.py: the tag canonicalizer                                         *)
(***************************************************************************)

TAG_BLACKLIST ==
  {
    <<"a">>, <<"a", "n">>, <<"a", "n", "d">>,
    <<"a", "r", "e">>, <<"a", "s">>, <<"a", "t">>,
    <<"b", "e">>, <<"b", "u", "t">>, <<"b", "y">>,
    <<"f", "o", "r">>, <<"f", "r", "o", "m">>, <<"h", "a", "s">>,
    <<"h", "a", "v", "e">>, <<"i", "f">>, <<"i", "n">>,
    <<"i", "n", "t", "o">>, <<"i", "s">>, <<"i", "t">>,
    <<"i", "t", "s">>, <<"o", "f">>, <<"o", "n">>,
    <<"o", "r">>, <<"o", "v", "e", "r">>, <<"t", "h", "a", "t">>,
    <<"t", "h", "e">>, <<"t", "h", "e", "i", "r">>, <<"t", "h", "i", "s">>,
    <<"t", "o">>, <<"u", "n", "d", "e", "r">>, <<"w", "a", "s">>,
    <<"w", "e", "r", "e">>, <<"w", "i", "t", "h">>
  }

\* the suffixes of stem_token, in the order the loop tries them
SUFFIXES == << <<"i", "n", "g">>, <<"e", "d">>, <<"e", "s">>, <<"s">> >>

\* a stemmer that stops at the first suffix the token ends with and measures
\* the remaining stem
RECURSIVE StemFrom_first_match(_, _)
StemFrom_first_match(token, k) ==
  IF k > Len(SUFFIXES) THEN token
  ELSE IF EndsWith(token, SUFFIXES[k])
       THEN (IF Len(token) - Len(SUFFIXES[k]) > Len(SUFFIXES[k]) + 2
             THEN SubSeq(token, 1, Len(token) - Len(SUFFIXES[k]))
             ELSE token)
       ELSE StemFrom_first_match(token, k + 1)

RECURSIVE StemFrom(_, _)
StemFrom(token, k) ==
  IF k > Len(SUFFIXES) THEN token
  ELSE IF EndsWith(token, SUFFIXES[k]) /\ Len(token) > Len(SUFFIXES[k]) + 2
       THEN SubSeq(token, 1, Len(token) - Len(SUFFIXES[k]))
       ELSE StemFrom(token, k + 1)

\* utils.stem_token
stem_token(token) == StemFrom(token, 1)

\* json.dumps of one string (ensure_ascii=False): quote and backslash escaped
\* an encoder that escapes the quote and leaves the backslash alone
RECURSIVE JsonEscape_quote_only(_)
JsonEscape_quote_only(s) ==
  IF s = <<>> THEN <<>>
  ELSE IF Head(s) = "\""
       THEN <<"\\", Head(s)>> \o JsonEscape_quote_only(Tail(s))
       ELSE <<Head(s)>> \o JsonEscape_quote_only(Tail(s))

RECURSIVE JsonEscape(_)
JsonEscape(s) ==
  IF s = <<>> THEN <<>>
  ELSE IF Head(s) \in {"\"", "\\"}
       THEN <<"\\", Head(s)>> \o JsonEscape(Tail(s))
       ELSE IF Head(s) = "\t"
            THEN <<"\\", "t">> \o JsonEscape(Tail(s))
            ELSE <<Head(s)>> \o JsonEscape(Tail(s))

JsonString(s) == <<"\"">> \o JsonEscape(s) \o <<"\"">>

\* utils.tags_to_json: json.dumps(tags_list, ensure_ascii=False)
tags_to_json(tags_list) ==
  <<"[">> \o Join([i \in DOMAIN tags_list |-> JsonString(tags_list[i])],
                  <<",", " ">>) \o <<"]">>

\* utils.tags_to_text: " ".join(tags_list)
tags_to_text(tags_list) == Join(tags_list, <<" ">>)

\* json.loads restricted to the documents the tag columns hold: an array of
\* string literals.  JsonStringBody scans one literal from the character after
\* its opening quote; next = 0 reports a decode error.
RECURSIVE JsonStringBody(_, _, _)
JsonStringBody(s, i, acc) ==
  IF i > Len(s) THEN [next |-> 0, val |-> <<>>]
  ELSE IF s[i] = "\"" THEN [next |-> i + 1, val |-> acc]
  ELSE IF s[i] = "\t" THEN [next |-> 0, val |-> <<>>]
  ELSE IF s[i] = "\\"
       THEN IF i + 1 <= Len(s) /\ s[i + 1] \in {"\"", "\\"}
            THEN JsonStringBody(s, i + 2, Append(acc, s[i + 1]))
            ELSE IF i + 1 <= Len(s) /\ s[i + 1] = "t"
                 THEN JsonStringBody(s, i + 2, Append(acc, "\t"))
                 ELSE [next |-> 0, val |-> <<>>]
       ELSE JsonStringBody(s, i + 1, Append(acc, s[i]))

RECURSIVE SkipWs(_, _)
SkipWs(s, i) ==
  IF i <= Len(s) /\ s[i] \in WHITESPACE THEN SkipWs(s, i + 1) ELSE i

\* the elements of the array from position i (just after "[" or ",");
\* first tells whether "]" may close the array here
RECURSIVE JsonElements(_, _, _, _)
JsonElements(s, i0, acc, first) ==
  LET i == SkipWs(s, i0) IN
  IF i > Len(s) THEN [ok |-> FALSE, val |-> <<>>]
  ELSE IF first /\ s[i] = "]"
       THEN [ok |-> SkipWs(s, i + 1) > Len(s), val |-> acc]
       ELSE IF s[i] # "\"" THEN [ok |-> FALSE, val |-> <<>>]
            ELSE LET lit == JsonStringBody(s, i + 1, <<>>)
                     j == SkipWs(s, lit.next)
                 IN IF lit.next = 0 \/ j > Len(s)
                    THEN [ok |-> FALSE, val |-> <<>>]
                    ELSE IF s[j] = ","
                         THEN JsonElements(s, j + 1,
                                           Append(acc, lit.val), FALSE)
                         ELSE IF s[j] = "]"
                              THEN [ok |-> SkipWs(s, j + 1) > Len(s),
                                    val |-> Append(acc, lit.val)]
                              ELSE [ok |-> FALSE, val |-> <<>>]

\* json.loads(raw) for raw starting with "[": ok = FALSE is JSONDecodeError
json_loads(raw) ==
  IF raw # <<>> /\ Head(raw) = "["
  THEN JsonElements(raw, 2, <<>>, TRUE)
  ELSE [ok |-> FALSE, val |-> <<>>]

\* the array nesting at which the JSON decoder gives up.  CPython's decoder
\* raises RecursionError when arrays nest deeper than the interpreter's
\* recursion limit allows (about 1000 levels); the model scales it down.
MaxJsonDepth == 3

\* the arrays a document opens before its first other token
RECURSIVE OpenDepth(_, _)
OpenDepth(s, i0) ==
  LET i == SkipWs(s, i0)
  IN IF i <= Len(s) /\ s[i] = "[" THEN 1 + OpenDepth(s, i + 1) ELSE 0

\* json.loads(raw) raises RecursionError, which is no JSONDecodeError
JsonRecursionError(raw) == OpenDepth(raw, 1) > MaxJsonDepth

\* lines 86-99 of normalize_tags_list: the loop over the candidate tokens
RECURSIVE NormalizeCandidates(_, _)
NormalizeCandidates(candidates, normalized) ==
  IF candidates = <<>> THEN normalized
  ELSE LET clean0 == Lower(normalize_text(Head(candidates)))
           clean == stem_token(clean0)
       IN IF clean0 = <<>> \/ clean \in TAG_BLACKLIST
             \/ clean \in Range(normalized)
          THEN NormalizeCandidates(Tail(candidates), normalized)
          ELSE NormalizeCandidates(Tail(candidates),
                                   Append(normalized, clean))

\* lines 68-82 of normalize_tags_list: the candidates of a str argument
StrCandidates(tags) ==
  LET raw == Strip(tags)
      parts == SplitOn(raw, ",", <<>>)
      split == [i \in DOMAIN parts |-> Strip(parts[i])]
  IN IF raw = <<>> THEN <<>>
     ELSE IF Head(raw) = "["
          THEN (IF json_loads(raw).ok THEN json_loads(raw).val ELSE split)
          ELSE split

\* utils.normalize_tags_list; the argument carries its Python type:
\* [kind |-> "none"], [kind |-> "list", val |-> <<...>>] or
\* [kind |-> "str", val |-> text]
normalize_tags_list(tags) ==
  IF tags.kind = "none" THEN <<>>
  ELSE IF tags.kind = "list" THEN NormalizeCandidates(tags.val, <<>>)
       ELSE NormalizeCandidates(StrCandidates(tags.val), <<>>)

\* normalize_tags_list raises: line 79 catches json.JSONDecodeError only
normalize_tags_list_raises(tags) ==
  tags.kind = "str" /\ JsonRecursionError(Strip(tags.val))

PyStr(text) == [kind |-> "str", val |-> text]

PyList(items) == [kind |-> "list", val |-> items]

\* utils.parse_tags_json
parse_tags_json(tags_json) ==
  IF tags_json = <<>> THEN <<>>
  ELSE IF json_loads(tags_json).ok THEN json_loads(tags_json).val ELSE <<>>

(***************************************************************************)
(* Bounds of the model                                                     *)
(***************************************************************************)

\* observations ever inserted into one store (caps sqlite_sequence)
MaxId == 2

\* rows a store of an earlier release holds when the model starts
MaxLegacyRows == 1

(***************************************************************************)
(* database.py: the store                                                  *)
(*                                                                         *)
(* An image is the content of the database file:                           *)
(*   tables     the tables that exist                                      *)
(*   columns    the optional columns of observations that exist            *)
(*   meta       the value of meta['schema_version'], <<>> when no row      *)
(*   rows       observations, id -> row                                    *)
(*   seq        sqlite_sequence of observations (AUTOINCREMENT)            *)
(*   fts_table  whether the virtual table observations_fts exists          *)
(*   triggers   the triggers that exist                                    *)
(*   docs       the documents of the FTS5 index, rowid -> indexed columns  *)
(*   nTotalRow  the row count the FTS5 index records for itself            *)
(*   feedback_log  the rows of the table feedback_log, oldest first        *)
(*   sessions   the rows of the table sessions, id -> row                  *)
(*   session_seq  sqlite_sequence of sessions (AUTOINCREMENT)              *)
(***************************************************************************)

SCHEMA_VERSION == 4

TABLES == {"observations", "sessions", "checkpoints", "meta"}

TRIGGERS == {"observations_ai", "observations_ad", "observations_au"}

\* str(version) and int(value) for the meta table's TEXT value
VERSION_TEXT == <<"1", "2", "3", "4", "5">>

PyStrOfInt(version) == IF version = 0 THEN "0" ELSE VERSION_TEXT[version]

\* int(row["value"]); ValueError is caught and gives 0 (lines 46-49)
PyInt(value) ==
  IF \E v \in DOMAIN VERSION_TEXT : VERSION_TEXT[v] = value
  THEN CHOOSE v \in DOMAIN VERSION_TEXT : VERSION_TEXT[v] = value
  ELSE 0

\* the FTS5 document of a row: the four mirrored columns
Entry(row) ==
  [title |-> row.title, summary |-> row.summary,
   tags_text |-> row.tags_text, raw |-> row.raw]

NoRows == <<>>

\* the empty database file
EmptyStore ==
  [tables |-> {}, columns |-> {}, meta |-> <<>>, rows |-> NoRows, seq |-> 0,
   fts_table |-> FALSE, triggers |-> {}, docs |-> NoRows, nTotalRow |-> 0,
   feedback_log |-> <<>>, sessions |-> <<>>, session_seq |-> 0]

\* CREATE TABLE IF NOT EXISTS observations (lines 67-82): a table created
\* here has the columns tags_text and session_id
CreateObservations(img) ==
  IF "observations" \in img.tables THEN img
  ELSE [img EXCEPT !.tables = @ \cup {"observations"},
                   !.columns = {"tags_text", "session_id"}]

\* CREATE TABLE IF NOT EXISTS <name> for sessions, checkpoints and meta
CreateTable(img, name) == [img EXCEPT !.tables = @ \cup {name}]

\* database.ensure_meta_table
ensure_meta_table(img) == CreateTable(img, "meta")

\* database.get_schema_version, read from an image that has the meta table
get_schema_version(img) ==
  IF img.meta = <<>> THEN 0 ELSE PyInt(img.meta[1])

\* the INSERT ... ON CONFLICT DO UPDATE of database.set_schema_version
set_schema_version(img, version) ==
  [ensure_meta_table(img) EXCEPT !.meta = <<PyStrOfInt(version)>>]

\* ALTER TABLE observations ADD COLUMN <column>; an existing column raises
\* OperationalError, which lines 135-136 and 153-154 swallow
AddColumn(img, column) == [img EXCEPT !.columns = @ \cup {column}]

(***************************************************************************)
(* The FTS5 index and its triggers (ensure_fts, lines 176-217)             *)
(***************************************************************************)

\* INSERT INTO observations_fts(rowid, ...) VALUES (new.id, ...)
FtsInsert(img, id, row) ==
  [img EXCEPT !.docs = (id :> Entry(row)) @@ @, !.nTotalRow = @ + 1]

\* whether the index holds exactly the document the 'delete' command names
FtsIndexed(img, id, row) ==
  id \in DOMAIN img.docs /\ img.docs[id] = Entry(row)

\* INSERT INTO observations_fts(observations_fts, rowid, ...) VALUES
\* ('delete', old.id, ...): removes the document from the index
FtsDelete(img, id, row) ==
  [img EXCEPT !.docs = [i \in DOMAIN @ \ {id} |-> @[i]],
              !.nTotalRow = IF @ > 0 THEN @ - 1 ELSE 0]

\* FTS5 reports corruption ("database disk image is malformed") when it is
\* told to delete a document while its recorded row count is below one.
\* When the document is not the indexed one but the count is positive, the
\* outcome depends on the column sizes FTS5 recorded: lenient chooses it.
FtsDeleteFails(img, id, row, lenient) ==
  /\ ~FtsIndexed(img, id, row)
  /\ (img.nTotalRow < 1 \/ ~lenient)

\* the outcomes to choose from: one when every row is the indexed document
Lenience(img) ==
  IF \A id \in DOMAIN img.rows : FtsIndexed(img, id, img.rows[id])
  THEN {TRUE} ELSE BOOLEAN

\* trigger observations_ai (lines 185-193)
TriggerAfterInsert(img, id, row) ==
  IF "observations_ai" \in img.triggers THEN FtsInsert(img, id, row) ELSE img

\* trigger observations_ad (lines 194-202)
TriggerAfterDelete(img, id, row) ==
  IF "observations_ad" \in img.triggers THEN FtsDelete(img, id, row) ELSE img

\* observations_au without its two statements: the index keeps the old
\* document of an updated row
TriggerAfterUpdate_stale(img, id, old, new) == img

\* trigger observations_au (lines 203-213): delete the old document, insert
\* the new one
TriggerAfterUpdate(img, id, old, new) ==
  IF "observations_au" \in img.triggers
  THEN FtsInsert(FtsDelete(img, id, old), id, new)
  ELSE img

\* INSERT INTO observations on a table whose id is a plain INTEGER PRIMARY
\* KEY: the id after the largest id the table holds
NextId_reuse(img) ==
  IF DOMAIN img.rows = {} THEN 1
  ELSE 1 + CHOOSE i \in DOMAIN img.rows : \A j \in DOMAIN img.rows : j <= i

\* INSERT INTO observations: AUTOINCREMENT takes the id after the largest
\* id ever used
NextId(img) == img.seq + 1

InsertRow(img, row) ==
  LET id == NextId(img)
      stored == [img EXCEPT !.rows = (id :> row) @@ @, !.seq = id]
  IN TriggerAfterInsert(stored, id, row)

\* UPDATE observations SET ... WHERE id = ?
UpdateRow(img, id, new) ==
  LET old == img.rows[id]
      stored == [img EXCEPT !.rows = [@ EXCEPT ![id] = new]]
  IN TriggerAfterUpdate(stored, id, old, new)

UpdateFails(img, id, lenient) ==
  /\ "observations_au" \in img.triggers
  /\ FtsDeleteFails(img, id, img.rows[id], lenient)

\* DELETE FROM observations WHERE id IN (...), one row at a time
RECURSIVE DeleteRows(_, _)
DeleteRows(img, ids) ==
  IF ids = {} THEN img
  ELSE LET id == CHOOSE i \in ids : \A j \in ids : i <= j
           old == img.rows[id]
           stored == [img EXCEPT !.rows = [i \in DOMAIN @ \ {id} |-> @[i]]]
       IN DeleteRows(TriggerAfterDelete(stored, id, old), ids \ {id})

RECURSIVE DeleteFails(_, _, _)
DeleteFails(img, ids, lenient) ==
  IF ids = {} THEN FALSE
  ELSE LET id == CHOOSE i \in ids : \A j \in ids : i <= j
       IN \/ /\ "observations_ad" \in img.triggers
             /\ FtsDeleteFails(img, id, img.rows[id], lenient)
          \/ DeleteFails(DeleteRows(img, {id}), ids \ {id}, lenient)

(***************************************************************************)
(* operations.py: run_search                                               *)
(***************************************************************************)

IsAlnum(c) == LowerChar(c) \in Range(LOWER) \cup DIGITS

\* the unicode61 tokenizer of FTS5: maximal alphanumeric runs, lower-cased
RECURSIVE Tokenize(_, _)
Tokenize(text, cur) ==
  IF text = <<>> THEN (IF cur = <<>> THEN <<>> ELSE <<cur>>)
  ELSE IF IsAlnum(Head(text))
       THEN Tokenize(Tail(text), Append(cur, LowerChar(Head(text))))
       ELSE (IF cur = <<>> THEN <<>> ELSE <<cur>>)
            \o Tokenize(Tail(text), <<>>)

FtsTokens(text) == Tokenize(text, <<>>)

\* utils.quote_fts_query: double every quote and wrap in quotes
RECURSIVE DoubleQuotes(_)
DoubleQuotes(s) ==
  IF s = <<>> THEN <<>>
  ELSE IF Head(s) = "\"" THEN <<"\"", "\"">> \o DoubleQuotes(Tail(s))
       ELSE <<Head(s)>> \o DoubleQuotes(Tail(s))

quote_fts_query(query) == <<"\"">> \o DoubleQuotes(query) \o <<"\"">>

\* the body of a quoted FTS5 string that spans the whole query, from
\* position i; next = 0 when the string does not end with the query
RECURSIVE FtsStringBody(_, _, _)
FtsStringBody(s, i, acc) ==
  IF i > Len(s) THEN [next |-> 0, val |-> <<>>]
  ELSE IF s[i] # "\"" THEN FtsStringBody(s, i + 1, Append(acc, s[i]))
       ELSE IF i + 1 <= Len(s) /\ s[i + 1] = "\""
            THEN FtsStringBody(s, i + 2, Append(acc, "\""))
            ELSE [next |-> i + 1, val |-> acc]

\* The FTS5 query syntax as far as the model's queries use it: barewords
\* separated by spaces (all must occur in the row), or one quoted string (a
\* phrase); any other character is a syntax error or names a column that
\* does not exist, which SQLite reports as OperationalError.
FtsParse(fts_query) ==
  IF \A i \in DOMAIN fts_query :
       IsAlnum(fts_query[i]) \/ fts_query[i] = " "
  THEN [error |-> FALSE, phrase |-> FALSE, terms |-> FtsTokens(fts_query)]
  ELSE IF Head(fts_query) = "\""
          /\ FtsStringBody(fts_query, 2, <<>>).next = Len(fts_query) + 1
       THEN [error |-> FALSE, phrase |-> TRUE,
             terms |-> FtsTokens(FtsStringBody(fts_query, 2, <<>>).val)]
       ELSE [error |-> TRUE, phrase |-> FALSE, terms |-> <<>>]

FTS_COLUMNS == {"title", "summary", "tags_text", "raw"}

\* observations_fts MATCH ? on one indexed document
FtsMatches(doc, parsed) ==
  IF parsed.phrase
  THEN /\ parsed.terms # <<>>
       /\ \E col \in FTS_COLUMNS : Contains(FtsTokens(doc[col]), parsed.terms)
  ELSE \A k \in DOMAIN parsed.terms :
         \E col \in FTS_COLUMNS : parsed.terms[k] \in Range(FtsTokens(doc[col]))

\* the ids the index query of lines 91-104 selects (before ORDER BY/LIMIT)
FtsIds(img, fts_query) ==
  {id \in DOMAIN img.docs \cap DOMAIN img.rows :
     FtsMatches(img.docs[id], FtsParse(fts_query))}

\* whether the index query of lines 91-104 raises sqlite3.OperationalError
FtsRaises(img, fts_query) == ~img.fts_table \/ FtsParse(fts_query).error

\* text LIKE pattern, from position i of the pattern and j of the text: %
\* stands for any run of characters, _ for any one character, every other
\* character for itself, ASCII case ignored
RECURSIVE Like(_, _, _, _)
Like(pattern, i, text, j) ==
  IF i > Len(pattern) THEN j > Len(text)
  ELSE IF pattern[i] = "%"
       THEN \E k \in j..(Len(text) + 1) : Like(pattern, i + 1, text, k)
       ELSE /\ j <= Len(text)
            /\ (pattern[i] = "_" \/ LowerChar(pattern[i]) = LowerChar(text[j]))
            /\ Like(pattern, i + 1, text, j + 1)

\* line 126: like_query = f"%{query}%"
like_query(query) == <<"%">> \o query \o <<"%">>

\* title LIKE ? OR summary LIKE ? OR tags_text LIKE ? OR raw LIKE ? with the
\* pattern %query% (lines 127-134)
LikeMatches(row, query) ==
  \E col \in FTS_COLUMNS : Like(like_query(query), 1, row[col], 1)

LikeIds(img, query) == {id \in DOMAIN img.rows : LikeMatches(img.rows[id], query)}

\* ORDER BY id DESC
RECURSIVE IdsDescending(_)
IdsDescending(ids) ==
  IF ids = {} THEN <<>>
  ELSE LET top == CHOOSE i \in ids : \A j \in ids : j <= i
       IN <<top>> \o IdsDescending(ids \ {top})

\* the orders ORDER BY score may give: bm25 is not modelled
Orderings(ids) ==
  {f \in [1..Cardinality(ids) -> ids] :
     \A i, j \in DOMAIN f : i # j => f[i] # f[j]}

\* a window that runs through the row after its last one
Window_through(order, limit, offset) ==
  LET skip == IF offset < 0 THEN 0 ELSE offset
  IN SubSeq(order, skip + 1,
            IF limit < 0 \/ skip + limit + 1 > Len(order) THEN Len(order)
            ELSE skip + limit + 1)

\* LIMIT ? OFFSET ?: SQLite takes a negative LIMIT for no limit and a
\* negative OFFSET for 0
Window(order, limit, offset) ==
  LET skip == IF offset < 0 THEN 0 ELSE offset
  IN SubSeq(order, skip + 1,
            IF limit < 0 \/ skip + limit > Len(order) THEN Len(order)
            ELSE skip + limit)

\* operations._normalize_required_tags; required_tags is a list
_normalize_required_tags(required_tags) ==
  IF required_tags = <<>> THEN <<>>
  ELSE normalize_tags_list(PyList(required_tags))

\* a filter that one required tag satisfies
_matches_required_tags_any(item_tags, required_tags) ==
  \E k \in DOMAIN required_tags : required_tags[k] \in Range(item_tags)

\* operations._matches_required_tags
_matches_required_tags(item_tags, required_tags) ==
  \A k \in DOMAIN required_tags : required_tags[k] \in Range(item_tags)

\* the result dicts of lines 105-118 and 136-149
SearchItems(img, order, scored) ==
  [k \in DOMAIN order |->
     [id |-> order[k], tags |-> parse_tags_json(img.rows[order[k]].tags),
      scored |-> scored]]

RECURSIVE FilterItems(_, _)
FilterItems(items, required) ==
  IF items = <<>> THEN <<>>
  ELSE (IF _matches_required_tags(Head(items).tags, required)
        THEN <<Head(items)>> ELSE <<>>)
       \o FilterItems(Tail(items), required)

\* whether run_search takes the index branch (line 89) and returns from it
UsesIndex(img, fts_query, mode) ==
  mode # "like" /\ ~FtsRaises(img, fts_query)

\* the statements of run_search
INDEX_SELECT == "SELECT observations_fts"
TABLE_SELECT == "SELECT observations"

\* a run_search that filters the rows before it cuts the window
run_search_filter_first(img, query0, limit, offset, mode, quote, required_tags, ftsOrder) ==
  LET query == Strip(query0)
      required == _normalize_required_tags(required_tags)
      fts_query == IF quote THEN quote_fts_query(query) ELSE query
  IN IF query = <<>>
     THEN [raised |-> FALSE, items |-> <<>>, stmts |-> <<>>]
     ELSE IF UsesIndex(img, fts_query, mode)
          THEN [raised |-> FALSE,
                items |-> Window(FilterItems(SearchItems(img, ftsOrder, TRUE),
                                             required), limit, offset),
                stmts |-> <<INDEX_SELECT>>]
          ELSE IF mode # "like"
               THEN [raised |-> TRUE, items |-> <<>>,
                     stmts |-> <<INDEX_SELECT>>]
               ELSE [raised |-> FALSE,
                     items |-> Window(FilterItems(
                                 SearchItems(img,
                                   IdsDescending(LikeIds(img, query)), FALSE),
                                 required), limit, offset),
                     stmts |-> <<TABLE_SELECT>>]

\* a run_search without the early return of lines 85-86
run_search_no_early_return(img, query0, limit, offset, mode, quote, required_tags, ftsOrder) ==
  LET query == Strip(query0)
      required == _normalize_required_tags(required_tags)
      fts_query == IF quote THEN quote_fts_query(query) ELSE query
  IN IF UsesIndex(img, fts_query, mode)
     THEN [raised |-> FALSE,
           items |-> FilterItems(
                       SearchItems(img, Window(ftsOrder, limit, offset),
                                   TRUE), required),
           stmts |-> <<INDEX_SELECT>>]
     ELSE IF mode # "like"
          THEN [raised |-> TRUE, items |-> <<>>, stmts |-> <<INDEX_SELECT>>]
          ELSE [raised |-> FALSE,
                items |-> FilterItems(
                            SearchItems(img,
                              Window(IdsDescending(LikeIds(img, query)),
                                     limit, offset), FALSE), required),
                stmts |-> <<TABLE_SELECT>>]

\* a run_search that scans the table when the index finds nothing
run_search_scan_on_empty(img, query0, limit, offset, mode, quote, required_tags, ftsOrder) ==
  LET query == Strip(query0)
      required == _normalize_required_tags(required_tags)
      fts_query == IF quote THEN quote_fts_query(query) ELSE query
      scanned == [raised |-> FALSE,
                  items |-> FilterItems(
                              SearchItems(img,
                                Window(IdsDescending(LikeIds(img, query)),
                                       limit, offset), FALSE), required),
                  stmts |-> <<TABLE_SELECT>>]
  IN IF query = <<>>
     THEN [raised |-> FALSE, items |-> <<>>, stmts |-> <<>>]
     ELSE IF UsesIndex(img, fts_query, mode)
          THEN IF mode = "auto" /\ Window(ftsOrder, limit, offset) = <<>>
               THEN [scanned EXCEPT !.stmts = <<INDEX_SELECT, TABLE_SELECT>>]
               ELSE [raised |-> FALSE,
                     items |-> FilterItems(
                                 SearchItems(img,
                                   Window(ftsOrder, limit, offset), TRUE),
                                 required),
                     stmts |-> <<INDEX_SELECT>>]
          ELSE IF mode # "like"
               THEN [raised |-> TRUE, items |-> <<>>,
                     stmts |-> <<INDEX_SELECT>>]
               ELSE scanned

\* operations.run_search; ftsOrder is the order the index ranks its matches
\* in.  sqlite3 is imported under TYPE_CHECKING only (lines 8-9), so the
\* except clause of line 122 raises NameError whatever the index query
\* raised, in fts and in auto mode: raised = TRUE, and lines 123-152 are
\* reached in like mode only.
run_search(img, query0, limit, offset, mode, quote, required_tags, ftsOrder) ==
  LET query == Strip(query0)
      required == _normalize_required_tags(required_tags)
      fts_query == IF quote THEN quote_fts_query(query) ELSE query
  IN IF query = <<>>
     THEN [raised |-> FALSE, items |-> <<>>, stmts |-> <<>>]
     ELSE IF UsesIndex(img, fts_query, mode)
          THEN [raised |-> FALSE,
                items |-> FilterItems(
                            SearchItems(img, Window(ftsOrder, limit, offset),
                                        TRUE), required),
                stmts |-> <<INDEX_SELECT>>]
          ELSE IF mode # "like"
               THEN [raised |-> TRUE, items |-> <<>>,
                     stmts |-> <<INDEX_SELECT>>]
               ELSE [raised |-> FALSE,
                     items |-> FilterItems(
                                 SearchItems(img,
                                   Window(IdsDescending(LikeIds(img, query)),
                                          limit, offset), FALSE), required),
                     stmts |-> <<TABLE_SELECT>>]

(***************************************************************************)
(* Inputs of the model                                                     *)
(***************************************************************************)

\* "Classes, the", "cache" and "": tags columns written by earlier releases
LEGACY_TAGS ==
  { <<"C", "l", "a", "s", "s", "e", "s", ",", " ", "t", "h", "e">>,
    <<"c", "a", "c", "h", "e">>,
    <<>> }

\* "foo" and "bar"
TITLES == { <<"f", "o", "o">>, <<"b", "a", "r">> }

\* --tags arguments: "Classes, the" and "tenant:a,cache"
TAG_ARGS ==
  { <<"C", "l", "a", "s", "s", "e", "s", ",", " ", "t", "h", "e">>,
    <<"t", "e", "n", "a", "n", "t", ":", "a", ",", "c", "a", "c", "h", "e">> }

\* search queries: "cache", "class", "foo", "tenant:a"
QUERIES ==
  { <<"c", "a", "c", "h", "e">>, <<"c", "l", "a", "s", "s">>,
    <<"f", "o", "o">>, <<"t", "e", "n", "a", "n", "t", ":", "a">> }

MODES == {"auto", "fts", "like"}

NONE == [kind |-> "none", val |-> <<>>]

\* every id a store of the model can hold
IDS == 1..(MaxId + MaxLegacyRows)

\* A timestamp column holds a text.  The model writes the texts of one day
\* by their minute: IsoText(m) is minute m as utils.ISO_FORMAT writes it
\* ("...T00:0m:00Z", what utc_now returns), OffsetText(m) the same instant
\* written with the offset "+00:00", which --timestamp accepts as it
\* accepts any text.
IsoText(minute) == [minute |-> minute, zone |-> "Z"]

OffsetText(minute) == [minute |-> minute, zone |-> "+00:00"]

\* a <= b as SQLite compares two such texts: the first 19 characters decide
\* when the minutes differ, and "+" sorts before "Z"
TextLeq(a, b) ==
  \/ a.minute < b.minute
  \/ a.minute = b.minute /\ (a.zone = b.zone \/ a.zone = "+00:00")

\* start, end and around_id when they are None
NoBound == [kind |-> "none", val |-> IsoText(0)]

NoAnchor == [kind |-> "none", val |-> 0]

\* a row as an earlier release wrote it: no tags_text, no session_id
LegacyRow(tags) ==
  [timestamp |-> IsoText(1), project |-> "general", kind |-> "note",
   title |-> <<"o", "l", "d">>, summary |-> <<"n", "o", "t", "e">>,
   tags |-> tags, tags_text |-> <<>>, raw |-> <<>>, session_id |-> 0]

\* the tags columns of the rows such a store holds, by id
LegacyTagColumns == UNION {[1..k -> LEGACY_TAGS] : k \in 0..MaxLegacyRows}

\* stores written by releases whose SCHEMA_VERSION was below 2: the meta row
\* is absent, unreadable ("x") or "1"
LegacyStores ==
  {[EmptyStore EXCEPT
      !.tables = {"observations"} \cup (IF m = <<>> THEN {} ELSE {"meta"}),
      !.meta = m,
      !.rows = [i \in DOMAIN f |-> LegacyRow(f[i])],
      !.seq = Len(f)] :
     m \in {<<>>, <<"x">>, <<"1">>}, f \in LegacyTagColumns}

\* empty stores of the releases with SCHEMA_VERSION 2 and 3
ReleasedStores ==
  { [EmptyStore EXCEPT !.tables = {"observations", "meta"},
                       !.columns = {"tags_text"}, !.meta = <<"2">>],
    [EmptyStore EXCEPT !.tables = {"observations", "meta", "sessions"},
                       !.columns = {"tags_text", "session_id"},
                       !.meta = <<"3">>] }

\* stores of a later release: recorded version 5
NewerStores ==
  {[EmptyStore EXCEPT !.tables = t, !.columns = {"tags_text", "session_id"},
                      !.meta = <<"5">>] :
     t \in {{"observations", "meta"}, TABLES}}

InitStores == {EmptyStore} \cup LegacyStores \cup ReleasedStores \cup NewerStores

(***************************************************************************)
(* State                                                                   *)
(***************************************************************************)

VARIABLES
  disk,            \* the committed content of the database file
  tx,              \* what the connection sees: disk plus its open transaction
  in_transaction,  \* conn.in_transaction
  fts5,            \* whether this SQLite build has the fts5 module
  phase,           \* "new": connected; "schema": ensure_schema returned;
                   \* "ready": ensure_fts was called too (cli.py 262-264)
  pc,              \* the statement the running function is at, or "idle"
  ret,             \* where ensure_fts returns to
  version,         \* the local variable version of migrate_schema
  call,            \* the running call, or the one that just ended
  last,            \* how the call before it ended: "ensure_schema" when
                   \* ensure_schema returned, "crash" when it was killed,
                   \* "error" after an exception, "other" otherwise
  result,          \* what the last query returned
  store0,          \* the store the behaviour started from
  parked,          \* the other process on the same store, while this one
                   \* runs: its connection and its position
  canon            \* the last call of a function of the tag canonicalizer
                   \* made on its own: function, argument and result

vars == <<disk, tx, in_transaction, fts5, phase, pc, ret, version, call,
          last, result, store0, parked, canon>>

\* op: the function; before: the committed store it was called on; prev:
\* the value of last then; stmts: the statements it has executed; steps: the
\* versions it has set; outcome: "running", "returned" or the exception
NoCall ==
  [op |-> "none", before |-> EmptyStore, prev |-> "none", stmts |-> <<>>,
   steps |-> <<>>, outcome |-> "none", tags |-> NONE, obs_id |-> 0,
   updates |-> {}]

\* required, start, end, around_id, window_minutes, ids: arguments of the
\* query; feedback: the items given to apply_review_feedback, report: the
\* counts it returned; pages: the ids of the pages a client has read with
\* run_list so far; error: the message of the ValueError it raised; order: the order the
\* statement's ORDER BY gave its rows; stmts: the statements it executed
NoResult ==
  [op |-> "none", query |-> <<>>, mode |-> "none", limit |-> 0, offset |-> 0,
   raised |-> FALSE, items |-> <<>>, matched |-> 0, deleted |-> 0,
   required |-> <<>>, order |-> <<>>, stmts |-> <<>>,
   start |-> NoBound, end |-> NoBound, around_id |-> NoAnchor,
   window_minutes |-> 0, error |-> "none", ids |-> <<>>,
   report |-> [total |-> 0, applied |-> 0, failed |-> 0, dry_run |-> FALSE],
   feedback |-> <<>>, pages |-> <<>>]

\* no other process uses the store
NoProcess ==
  [tx |-> EmptyStore, in_transaction |-> FALSE, phase |-> "none",
   pc |-> "none", ret |-> "idle", version |-> 0, call |-> NoCall,
   last |-> "none", result |-> NoResult]

\* fn: the function; arg: its argument; out: what it returned; raised:
\* whether it raised instead; prev: the argument of the call whose result
\* arg is, fn_prev: that call's function ("input" when arg is an input);
\* csv_out, json_out: the results for the same tokens given as a
\* comma-separated string and as a JSON array string
NoCanon ==
  [fn |-> "none", arg |-> NONE, out |-> NONE, raised |-> FALSE,
   prev |-> NONE, fn_prev |-> "none", csv_out |-> NONE, json_out |-> NONE]

Init ==
  /\ disk \in InitStores
  /\ parked = NoProcess
  /\ canon = NoCanon
  /\ tx = disk
  /\ store0 = disk
  /\ in_transaction = FALSE
  /\ fts5 \in BOOLEAN
  /\ phase = "new"
  /\ pc = "idle"
  /\ ret = "idle"
  /\ version = 0
  /\ call = NoCall
  /\ last = "none"
  /\ result = NoResult

(***************************************************************************)
(* Statements and transactions (sqlite3 module, isolation_level "")        *)
(***************************************************************************)

\* a CREATE/ALTER/DROP statement: part of the open transaction when there
\* is one, committed by itself otherwise.  A statement that changes the
\* store waits while another connection holds the write lock.
ExecDdl(img) ==
  /\ (img = tx \/ ~parked.in_transaction)
  /\ tx' = img
  /\ disk' = IF in_transaction THEN disk ELSE img
  /\ UNCHANGED in_transaction

\* an INSERT/UPDATE/DELETE statement: sqlite3 opens a transaction before
\* it, which takes the write lock
ExecDml(img) ==
  /\ ~parked.in_transaction
  /\ tx' = img
  /\ in_transaction' = TRUE
  /\ UNCHANGED disk

\* conn.commit()
Commit ==
  /\ disk' = tx
  /\ tx' = tx
  /\ in_transaction' = FALSE

\* conn.rollback(), and what closing the connection or a crash does
Rollback ==
  /\ tx' = disk
  /\ in_transaction' = FALSE
  /\ UNCHANGED disk

\* a statement is appended to the record of the running call
Logged(stmt) == [call EXCEPT !.stmts = Append(@, stmt)]

\* a function is entered from the idle connection
Entered(op) ==
  [op |-> op, before |-> disk, prev |-> last, stmts |-> <<>>, steps |-> <<>>,
   outcome |-> "running", tags |-> NONE, obs_id |-> 0, updates |-> {}]

\* a write path has written the row obs_id from the tags it was given
Written(op, tags, obs_id) ==
  [Entered(op) EXCEPT !.tags = tags, !.obs_id = obs_id]

\* a function returns to the idle connection
Returned(op) ==
  /\ pc' = "idle"
  /\ call' = [call EXCEPT !.outcome = "returned", !.stmts = <<>>,
                          !.steps = <<>>, !.updates = {}]
  /\ last' = IF op = "ensure_schema" THEN op ELSE "other"

\* an exception leaves the function
Raised(stmts, error) ==
  /\ pc' = "failed"
  /\ call' = [call EXCEPT !.stmts = @ \o stmts, !.outcome = error]
  /\ UNCHANGED last

(***************************************************************************)
(* database.py: ensure_schema and migrate_schema                           *)
(***************************************************************************)

\* line 120 with the comparison off by one
VersionTooNew_lenient(v) == v > SCHEMA_VERSION + 1

\* line 120
VersionTooNew(v) == v > SCHEMA_VERSION

\* lines 126, 130, 148 and 158 without their tests: every step runs
NeedsStep_unguarded(v, k) == TRUE

\* the tests of lines 126, 130, 148 and 158
NeedsStep(v, k) == v < k

StepPc(k) ==
  CASE k = 1 -> "ms_step1"
    [] k = 2 -> "ms_step2_alter"
    [] k = 3 -> "ms_step3_alter"
    [] OTHER -> "ms_step4_create"

\* the first of the steps k, k+1, ... whose test passes; the commit of
\* line 112 when none does
RECURSIVE StepFrom(_, _)
StepFrom(v, k) ==
  IF k > SCHEMA_VERSION THEN "es_commit"
  ELSE IF NeedsStep(v, k) THEN StepPc(k) ELSE StepFrom(v, k + 1)

\* lines 67-82, entered from the idle connection
ensure_schema ==
  /\ pc = "idle"
  /\ ExecDdl(CreateObservations(tx))
  /\ call' = [Entered("ensure_schema") EXCEPT
                !.stmts = <<"CREATE TABLE observations">>]
  /\ pc' = "es_sessions"
  /\ result' = NoResult
  /\ UNCHANGED <<fts5, parked, canon, phase, ret, version, last, store0>>

\* lines 83-96
ensure_schema_sessions ==
  /\ pc = "es_sessions"
  /\ ExecDdl(CreateTable(tx, "sessions"))
  /\ call' = Logged("CREATE TABLE sessions")
  /\ pc' = "es_checkpoints"
  /\ UNCHANGED <<fts5, parked, canon, phase, ret, version, last, result, store0>>

\* lines 97-110
ensure_schema_checkpoints ==
  /\ pc = "es_checkpoints"
  /\ ExecDdl(CreateTable(tx, "checkpoints"))
  /\ call' = Logged("CREATE TABLE checkpoints")
  /\ pc' = "ms_get_version"
  /\ UNCHANGED <<fts5, parked, canon, phase, ret, version, last, result, store0>>

\* line 119: get_schema_version creates the meta table, then reads the row
migrate_get_version ==
  /\ pc = "ms_get_version"
  /\ ExecDdl(ensure_meta_table(tx))
  /\ version' = get_schema_version(tx)
  /\ call' = Logged("CREATE TABLE meta")
  /\ pc' = "ms_check"
  /\ UNCHANGED <<fts5, parked, canon, phase, ret, last, result, store0>>

\* lines 120-124
migrate_check ==
  /\ pc = "ms_check"
  /\ IF VersionTooNew(version)
     THEN Raised(<<>>, "RuntimeError")
     ELSE /\ pc' = StepFrom(version, 1)
          /\ UNCHANGED <<call, last>>
  /\ UNCHANGED <<disk, tx, in_transaction, fts5, parked, canon, phase, ret, version, result,
                 store0>>

\* set_schema_version(conn, k) followed by version = k
SetVersion(k, next) ==
  /\ ExecDml(set_schema_version(tx, k))
  /\ version' = k
  /\ call' = [Logged("INSERT meta") EXCEPT !.steps = Append(@, k)]
  /\ pc' = next
  /\ UNCHANGED <<fts5, parked, canon, phase, ret, last, result, store0>>

\* lines 126-128
migrate_step1 ==
  /\ pc = "ms_step1"
  /\ SetVersion(1, StepFrom(1, 2))

\* lines 131-136
migrate_step2_alter ==
  /\ pc = "ms_step2_alter"
  /\ ExecDdl(AddColumn(tx, "tags_text"))
  /\ call' = Logged("ALTER TABLE observations")
  /\ pc' = "ms_step2_backfill"
  /\ UNCHANGED <<fts5, parked, canon, phase, ret, version, last, result, store0>>

\* the UPDATE of lines 139-143 without normalize_tags_list: tags_text
\* is the legacy tags value as it stands
BackfilledRow_unnormalized(row) ==
  [row EXCEPT !.tags = tags_to_json(<<row.tags>>), !.tags_text = row.tags]

\* lines 139-143: what the UPDATE writes for one row
BackfilledRow(row) ==
  LET tags_list == normalize_tags_list(PyStr(row.tags))
  IN [row EXCEPT !.tags = tags_to_json(tags_list),
                 !.tags_text = tags_to_text(tags_list)]

\* lines 137-143: the loop over the fetched rows, in id order; it stops
\* at the first UPDATE that raises
RECURSIVE Backfill(_, _, _)
Backfill(img, ids, lenient) ==
  IF ids = {} THEN [img |-> img, raised |-> FALSE]
  ELSE LET id == CHOOSE i \in ids : \A j \in ids : i <= j
       IN IF UpdateFails(img, id, lenient)
          THEN [img |-> img, raised |-> TRUE]
          ELSE Backfill(UpdateRow(img, id, BackfilledRow(img.rows[id])),
                        ids \ {id}, lenient)

migrate_step2_backfill ==
  /\ pc = "ms_step2_backfill"
  /\ \E lenient \in Lenience(tx) :
       LET done == Backfill(tx, DOMAIN tx.rows, lenient)
       IN /\ IF DOMAIN tx.rows = {}
             THEN UNCHANGED <<disk, tx, in_transaction>>
             ELSE ExecDml(done.img)
          /\ IF done.raised
             THEN Raised(<<"UPDATE observations">>, "DatabaseError")
             ELSE /\ pc' = "rf_drop_ai"
                  /\ call' = Logged("UPDATE observations")
                  /\ UNCHANGED last
  /\ UNCHANGED <<fts5, parked, canon, phase, ret, version, result, store0>>

(***************************************************************************)
(* database.py: rebuild_fts and ensure_fts                                 *)
(***************************************************************************)

DropTrigger(img, name) == [img EXCEPT !.triggers = @ \ {name}]

CreateTrigger(img, name) == [img EXCEPT !.triggers = @ \cup {name}]

\* DROP TABLE IF EXISTS observations_fts (line 225)
DropFtsTable(img) ==
  [img EXCEPT !.fts_table = FALSE, !.docs = NoRows, !.nTotalRow = 0]

\* CREATE VIRTUAL TABLE IF NOT EXISTS observations_fts USING fts5(...,
\* content='observations', content_rowid='id') (lines 179-184): a table
\* created here has an empty index
CreateFtsTable(img) == [img EXCEPT !.fts_table = TRUE]

\* line 222
rebuild_fts_drop_ai ==
  /\ pc = "rf_drop_ai"
  /\ ExecDdl(DropTrigger(tx, "observations_ai"))
  /\ call' = Logged("DROP TRIGGER observations_ai")
  /\ pc' = "rf_drop_ad"
  /\ UNCHANGED <<fts5, parked, canon, phase, ret, version, last, result, store0>>

\* line 223
rebuild_fts_drop_ad ==
  /\ pc = "rf_drop_ad"
  /\ ExecDdl(DropTrigger(tx, "observations_ad"))
  /\ call' = Logged("DROP TRIGGER observations_ad")
  /\ pc' = "rf_drop_au"
  /\ UNCHANGED <<fts5, parked, canon, phase, ret, version, last, result, store0>>

\* line 224
rebuild_fts_drop_au ==
  /\ pc = "rf_drop_au"
  /\ ExecDdl(DropTrigger(tx, "observations_au"))
  /\ call' = Logged("DROP TRIGGER observations_au")
  /\ pc' = "rf_drop_table"
  /\ UNCHANGED <<fts5, parked, canon, phase, ret, version, last, result, store0>>

\* lines 225-226: the table is dropped and ensure_fts is called
rebuild_fts_drop_table ==
  /\ pc = "rf_drop_table"
  /\ ExecDdl(DropFtsTable(tx))
  /\ call' = Logged("DROP TABLE observations_fts")
  /\ pc' = "ef_create_table"
  /\ ret' = "ms_step2_version"
  /\ UNCHANGED <<fts5, parked, canon, phase, version, last, result, store0>>

\* ensure_fts called on the idle connection (cli.py line 264)
ensure_fts ==
  /\ pc = "idle"
  /\ phase \in {"schema", "ready"}
  /\ call' = Entered("ensure_fts")
  /\ pc' = "ef_create_table"
  /\ ret' = "idle"
  /\ result' = NoResult
  /\ UNCHANGED <<disk, tx, in_transaction, fts5, parked, canon, phase, version, last, store0>>

\* ensure_fts returns, to migrate_schema or to the caller of cli.py
EnsureFtsReturns ==
  IF ret = "idle"
  THEN /\ Returned("ensure_fts")
       /\ phase' = "ready"
       /\ UNCHANGED ret
  ELSE /\ pc' = ret
       /\ ret' = "idle"
       /\ UNCHANGED <<call, last, phase>>

\* lines 179-184; without the fts5 module the statement raises
\* OperationalError and lines 216-217 return False
ensure_fts_create_table ==
  /\ pc = "ef_create_table"
  /\ IF fts5 \/ tx.fts_table
     THEN /\ ExecDdl(CreateFtsTable(tx))
          /\ call' = Logged("CREATE VIRTUAL TABLE observations_fts")
          /\ pc' = "ef_trigger_ai"
          /\ UNCHANGED <<ret, last, phase>>
     ELSE /\ EnsureFtsReturns
          /\ UNCHANGED <<disk, tx, in_transaction>>
  /\ UNCHANGED <<fts5, parked, canon, version, result, store0>>

\* lines 185-193
ensure_fts_trigger_ai ==
  /\ pc = "ef_trigger_ai"
  /\ ExecDdl(CreateTrigger(tx, "observations_ai"))
  /\ call' = Logged("CREATE TRIGGER observations_ai")
  /\ pc' = "ef_trigger_ad"
  /\ UNCHANGED <<fts5, parked, canon, phase, ret, version, last, result, store0>>

\* lines 194-202
ensure_fts_trigger_ad ==
  /\ pc = "ef_trigger_ad"
  /\ ExecDdl(CreateTrigger(tx, "observations_ad"))
  /\ call' = Logged("CREATE TRIGGER observations_ad")
  /\ pc' = "ef_trigger_au"
  /\ UNCHANGED <<fts5, parked, canon, phase, ret, version, last, result, store0>>

\* lines 203-213
ensure_fts_trigger_au ==
  /\ pc = "ef_trigger_au"
  /\ ExecDdl(CreateTrigger(tx, "observations_au"))
  /\ call' = Logged("CREATE TRIGGER observations_au")
  /\ pc' = "ef_commit"
  /\ UNCHANGED <<fts5, parked, canon, phase, ret, version, last, result, store0>>

\* lines 214-215: conn.commit(), return True
ensure_fts_commit ==
  /\ pc = "ef_commit"
  /\ Commit
  /\ EnsureFtsReturns
  /\ UNCHANGED <<fts5, parked, canon, version, result, store0>>

(***************************************************************************)
(* database.py: migrate_schema, steps 2 to 4, and the final commit         *)
(***************************************************************************)

\* lines 145-146
migrate_step2_version ==
  /\ pc = "ms_step2_version"
  /\ SetVersion(2, StepFrom(2, 3))

\* lines 149-154
migrate_step3_alter ==
  /\ pc = "ms_step3_alter"
  /\ ExecDdl(AddColumn(tx, "session_id"))
  /\ call' = Logged("ALTER TABLE observations")
  /\ pc' = "ms_step3_version"
  /\ UNCHANGED <<fts5, parked, canon, phase, ret, version, last, result, store0>>

\* lines 155-156
migrate_step3_version ==
  /\ pc = "ms_step3_version"
  /\ SetVersion(3, StepFrom(3, 4))

\* lines 159-172
migrate_step4_create ==
  /\ pc = "ms_step4_create"
  /\ ExecDdl(CreateTable(tx, "checkpoints"))
  /\ call' = Logged("CREATE TABLE checkpoints")
  /\ pc' = "ms_step4_version"
  /\ UNCHANGED <<fts5, parked, canon, phase, ret, version, last, result, store0>>

\* line 173
migrate_step4_version ==
  /\ pc = "ms_step4_version"
  /\ SetVersion(SCHEMA_VERSION, "es_commit")

\* line 112: conn.commit(), and ensure_schema returns
ensure_schema_commit ==
  /\ pc = "es_commit"
  /\ Commit
  /\ Returned("ensure_schema")
  /\ phase' = IF phase = "new" THEN "schema" ELSE phase
  /\ version' = 0
  /\ UNCHANGED <<fts5, parked, canon, ret, result, store0>>

(***************************************************************************)
(* The process                                                             *)
(***************************************************************************)

\* the process ends (cli.py lines 299-303: conn.close()), and the next one
\* connects: an open transaction is rolled back
Exit ==
  /\ \/ pc = "failed"
     \/ pc = "idle" /\ phase # "new"
  /\ Rollback
  /\ last' = IF pc = "failed" THEN "error" ELSE last
  /\ call' = NoCall
  /\ result' = NoResult
  /\ pc' = "idle"
  /\ phase' = "new"
  /\ ret' = "idle"
  /\ version' = 0
  /\ UNCHANGED <<fts5, parked, canon, store0>>

\* the process is killed inside a function
Crash ==
  /\ pc \notin {"idle", "failed"}
  /\ Rollback
  /\ call' = NoCall
  /\ result' = NoResult
  /\ last' = IF call.op = "ensure_schema" THEN "crash" ELSE "other"
  /\ pc' = "idle"
  /\ phase' = "new"
  /\ ret' = "idle"
  /\ version' = 0
  /\ UNCHANGED <<fts5, parked, canon, store0>>

\* a process that has connected and called nothing yet (cli.py line 262)
NewProcess == [NoProcess EXCEPT !.phase = "new", !.pc = "idle"]

\* The operating system runs the other process: the two processes change
\* places between two statements.  A connection outside a transaction sees
\* the committed store; one inside a transaction keeps its own view.
Switch ==
  /\ parked # NoProcess
  /\ parked' = [tx |-> IF in_transaction THEN tx ELSE EmptyStore,
                in_transaction |-> in_transaction, phase |-> phase, pc |-> pc,
                ret |-> ret, version |-> version, call |-> call,
                last |-> last, result |-> result]
  /\ tx' = IF parked.in_transaction THEN parked.tx ELSE disk
  /\ in_transaction' = parked.in_transaction
  /\ phase' = parked.phase
  /\ pc' = parked.pc
  /\ ret' = parked.ret
  /\ version' = parked.version
  /\ call' = parked.call
  /\ last' = parked.last
  /\ result' = parked.result
  /\ UNCHANGED <<disk, fts5, store0, canon>>

(***************************************************************************)
(* cli.py and operations.py: the observation operations                    *)
(***************************************************************************)

LIMITS == {Cardinality(IDS)}

OFFSETS == {0}

\* cli._handle_add (lines 312-345): the row handed to add_observation
NewRow(title, tags) ==
  LET tags_list == normalize_tags_list(PyStr(tags))
  IN [timestamp |-> IsoText(2), project |-> "general", kind |-> "note",
      title |-> normalize_text(title), summary |-> <<"n", "e", "w">>,
      tags |-> tags_to_json(tags_list), tags_text |-> tags_to_text(tags_list),
      raw |-> <<>>, session_id |-> 0]

\* operations.add_observation, lines 48-54: the INSERT
add_observation ==
  /\ pc = "idle"
  /\ phase = "ready"
  /\ tx.seq < MaxId
  /\ \E title \in TITLES, tags \in TAG_ARGS :
       /\ ExecDml(InsertRow(tx, NewRow(title, tags)))
       /\ call' = [Written("add_observation", PyStr(tags), NextId(tx)) EXCEPT
                     !.stmts = <<"INSERT observations">>]
  /\ pc' = "ao_commit"
  /\ result' = NoResult
  /\ UNCHANGED <<fts5, parked, canon, phase, ret, version, last, store0>>

\* operations.add_observation, lines 55-56: conn.commit() and return
add_observation_commit ==
  /\ pc = "ao_commit"
  /\ Commit
  /\ Returned("add_observation")
  /\ UNCHANGED <<fts5, parked, canon, phase, ret, version, result, store0>>

\* an edit that stores the new tags and leaves tags_text as it was
EditedRow_tags_only(row, title, tags) ==
  LET current_tags == normalize_tags_list(tags)
      titled == IF title.kind = "none" THEN row
                ELSE [row EXCEPT !.title = normalize_text(title.val)]
  IN IF tags.kind = "none" THEN titled
     ELSE [titled EXCEPT !.tags = tags_to_json(current_tags)]

\* an edit that writes back the tags it read from the row and normalized
\* (line 313), whether or not new tags were given
EditedRow_always_tags(row, title, tags) ==
  LET current_tags == normalize_tags_list(IF tags.kind = "none"
                                          THEN PyStr(row.tags) ELSE tags)
      titled == IF title.kind = "none" THEN row
                ELSE [row EXCEPT !.title = normalize_text(title.val)]
  IN [titled EXCEPT !.tags = tags_to_json(current_tags),
                    !.tags_text = tags_to_text(current_tags)]

\* operations.run_edit, lines 311-337: the row after the requested updates;
\* title and tags are None or a str, the other arguments are None
EditedRow(row, title, tags) ==
  LET current_tags == normalize_tags_list(tags)
      titled == IF title.kind = "none" THEN row
                ELSE [row EXCEPT !.title = normalize_text(title.val)]
  IN IF tags.kind = "none" THEN titled
     ELSE [titled EXCEPT !.tags = tags_to_json(current_tags),
                         !.tags_text = tags_to_text(current_tags)]

\* operations.run_edit, lines 316-337: the keys of the dict updates
EditUpdates(title, tags) ==
  (IF title.kind = "none" THEN {} ELSE {"title"})
  \cup (IF tags.kind = "none" THEN {} ELSE {"tags", "tags_text"})

\* a run_edit that accepts a request without fields
EditRefusal_found_only(img, obs_id, updates) ==
  IF obs_id \notin DOMAIN img.rows THEN "not found" ELSE "none"

\* operations.run_edit, lines 307-309 and 339-340: the ValueError it raises,
\* "none" when it goes on to the UPDATE
EditRefusal(img, obs_id, updates) ==
  IF obs_id \notin DOMAIN img.rows THEN "not found"
  ELSE IF updates = {} THEN "no changes"
       ELSE "none"

\* operations.run_edit, lines 307-344: not found and nothing-to-change raise
\* ValueError; otherwise the UPDATE is executed.  call.updates is the dict
\* updates as far as the running call has built it.
run_edit ==
  /\ pc = "idle"
  /\ phase = "ready"
  /\ \E obs_id \in IDS,
        title \in {NONE} \cup {PyStr(t) : t \in TITLES},
        tags \in {NONE} \cup {PyStr(t) : t \in TAG_ARGS},
        lenient \in Lenience(tx) :
       LET updates == EditUpdates(title, tags)
           refusal == EditRefusal(tx, obs_id, updates)
       IN IF refusal # "none"
          THEN /\ pc' = "failed"
               /\ call' = [Entered("run_edit") EXCEPT
                             !.outcome = "ValueError", !.obs_id = obs_id]
               /\ result' = [NoResult EXCEPT !.op = "run_edit",
                               !.raised = TRUE, !.error = refusal]
               /\ UNCHANGED <<disk, tx, in_transaction>>
          ELSE /\ result' = NoResult
               /\ IF UpdateFails(tx, obs_id, lenient)
                  THEN /\ pc' = "failed"
                       /\ call' = [Entered("run_edit") EXCEPT
                                     !.stmts = <<"UPDATE observations">>,
                                     !.outcome = "DatabaseError"]
                       /\ ExecDml(tx)
                  ELSE /\ pc' = "re_commit"
                       /\ call' = [Written("run_edit", tags, obs_id) EXCEPT
                                     !.stmts = <<"UPDATE observations">>,
                                     !.updates = updates]
                       /\ ExecDml(UpdateRow(tx, obs_id,
                                    EditedRow(tx.rows[obs_id], title, tags)))
  /\ UNCHANGED <<fts5, parked, canon, phase, ret, version, last, store0>>

\* operations.run_edit, lines 345-349
run_edit_commit ==
  /\ pc = "re_commit"
  /\ Commit
  /\ Returned("run_edit")
  /\ UNCHANGED <<fts5, parked, canon, phase, ret, version, result, store0>>

\* the tag lists of the observations of a bundle: ["class", "cache"] as
\* run_share exports them, ["Foo"] and []
BUNDLE_TAGS ==
  { << <<"c", "l", "a", "s", "s">>, <<"c", "a", "c", "h", "e">> >>,
    << <<"F", "o", "o">> >>,
    <<>> }

\* share.run_import, lines 283-299: the row inserted for an observation of
\* the bundle
ImportedRow(tags_list) ==
  [timestamp |-> IsoText(1), project |-> "general", kind |-> "note",
   title |-> <<"f", "o", "o">>, summary |-> <<"n", "e", "w">>,
   tags |-> tags_to_json(tags_list), tags_text |-> tags_to_text(tags_list),
   raw |-> <<>>, session_id |-> 0]

\* share.run_import, lines 245-301, for a bundle of one observation and no
\* session: with dry_run nothing is written
run_import ==
  /\ pc = "idle"
  /\ phase = "ready"
  /\ tx.seq < MaxId
  /\ \E tags_list \in BUNDLE_TAGS, dry_run \in BOOLEAN :
       IF dry_run
       THEN /\ pc' = "idle"
            /\ call' = [Entered("run_import") EXCEPT !.outcome = "returned"]
            /\ last' = "other"
            /\ UNCHANGED <<disk, tx, in_transaction>>
       ELSE /\ pc' = "ri_commit"
            /\ call' = [Written("run_import", PyList(tags_list),
                                NextId(tx)) EXCEPT
                          !.stmts = <<"INSERT observations">>]
            /\ ExecDml(InsertRow(tx, ImportedRow(tags_list)))
            /\ UNCHANGED last
  /\ result' = NoResult
  /\ UNCHANGED <<fts5, parked, canon, phase, ret, version, store0>>

\* share.run_import, lines 303-312: conn.commit() and return
run_import_commit ==
  /\ pc = "ri_commit"
  /\ Commit
  /\ Returned("run_import")
  /\ UNCHANGED <<fts5, parked, canon, phase, ret, version, result, store0>>

\* str.replace(old, new) for one-character strings
Replace(s, old, new) == [i \in DOMAIN s |-> IF s[i] = old THEN new ELSE s[i]]

\* tool names: "Bash", "Read File" and "grep_files"
TOOL_NAMES ==
  { <<"B", "a", "s", "h">>,
    <<"R", "e", "a", "d", " ", "F", "i", "l", "e">>,
    <<"g", "r", "e", "p", "_", "f", "i", "l", "e", "s">> }

\* status values: "ok" and "error"
STATUSES == { <<"o", "k">>, <<"e", "r", "r", "o", "r">> }

\* the tag "error" that both loggers append when status == "error"
ErrorTag(status) ==
  IF status = <<"e", "r", "r", "o", "r">> THEN << status >> ELSE <<>>

\* analytics.log_tool_call, lines 176-178: the tags of the record
ToolTags(tool_name, status) ==
  << <<"t", "o", "o", "l">>, Replace(Lower(tool_name), " ", "_") >>
    \o ErrorTag(status)

\* the arguments add_observation receives from a logger: the tags text is
\* " ".join(tags)
LoggedRow(kind, title, status, tags) ==
  [timestamp |-> IsoText(2), project |-> "general", kind |-> kind,
   title |-> title,
   summary |-> <<"S", "t", "a", "t", "u", "s", ":", " ">> \o status,
   tags |-> tags_to_json(tags), tags_text |-> tags_to_text(tags),
   raw |-> <<>>, session_id |-> 0]

\* analytics.log_tool_call, lines 155-193, up to the INSERT of add_observation
log_tool_call ==
  /\ pc = "idle"
  /\ phase = "ready"
  /\ tx.seq < MaxId
  /\ \E tool_name \in TOOL_NAMES, status \in STATUSES :
       LET tags == ToolTags(tool_name, status)
           title == <<"T", "o", "o", "l", ":", " ">> \o tool_name
       IN /\ ExecDml(InsertRow(tx, LoggedRow("tool_call", title, status,
                                              tags)))
          /\ call' = [Written("log_tool_call", PyList(tags), NextId(tx)) EXCEPT
                        !.stmts = <<"INSERT observations">>]
  /\ pc' = "ao_commit"
  /\ result' = NoResult
  /\ UNCHANGED <<fts5, parked, canon, phase, ret, version, last, store0>>

\* phase and action arguments: "", "Plan" and "run tests"
PHASE_ARGS == { <<>>, <<"P", "l", "a", "n">> }

ACTION_ARGS == { <<"r", "u", "n", " ", "t", "e", "s", "t", "s">> }

\* analytics.log_agent_transition, lines 211-212: (value or "unknown").strip()
\* or "unknown"
Safe(value) ==
  IF Strip(value) = <<>> THEN <<"u", "n", "k", "n", "o", "w", "n">>
  ELSE Strip(value)

\* analytics.log_agent_transition, lines 227-229: the tags of the record
TransitionTags(agent_phase, action, status) ==
  << <<"t", "r", "a", "n", "s", "i", "t", "i", "o", "n">>,
     Replace(Lower(Safe(agent_phase)), " ", "_"),
     Replace(Lower(Safe(action)), " ", "_") >>
    \o ErrorTag(status)

\* analytics.log_agent_transition, lines 211-242, up to the INSERT of
\* add_observation
log_agent_transition ==
  /\ pc = "idle"
  /\ phase = "ready"
  /\ tx.seq < MaxId
  /\ \E agent_phase \in PHASE_ARGS, action \in ACTION_ARGS,
        status \in STATUSES :
       LET tags == TransitionTags(agent_phase, action, status)
           title == <<"T", "r", "a", "n", "s", "i", "t", "i", "o", "n", ":",
                      " ">> \o Safe(agent_phase) \o <<"/">> \o Safe(action)
       IN /\ ExecDml(InsertRow(tx, LoggedRow("agent_transition", title,
                                              status, tags)))
          /\ call' = [Written("log_agent_transition", PyList(tags),
                              NextId(tx)) EXCEPT
                        !.stmts = <<"INSERT observations">>]
  /\ pc' = "ao_commit"
  /\ result' = NoResult
  /\ UNCHANGED <<fts5, parked, canon, phase, ret, version, last, store0>>

\* operations.run_delete, lines 354-366 and 368-376
run_delete ==
  /\ pc = "idle"
  /\ phase = "ready"
  /\ \E ids \in SUBSET IDS, dry_run \in BOOLEAN, lenient \in Lenience(tx) :
       LET matching == ids \cap DOMAIN tx.rows
           matched == Cardinality(matching)
       IN IF ids = {}
          THEN /\ pc' = "failed"
               /\ call' = [Entered("run_delete") EXCEPT
                             !.outcome = "ValueError"]
               /\ result' = NoResult
               /\ UNCHANGED <<disk, tx, in_transaction, last>>
          ELSE IF ~dry_run /\ matched > 0
               THEN IF DeleteFails(tx, matching, lenient)
                    THEN /\ pc' = "failed"
                         /\ call' = [Entered("run_delete") EXCEPT
                                       !.stmts = <<"DELETE observations">>,
                                       !.outcome = "DatabaseError"]
                         /\ result' = NoResult
                         /\ ExecDml(tx)
                         /\ UNCHANGED last
                    ELSE /\ pc' = "rd_commit"
                         /\ call' = [Entered("run_delete") EXCEPT
                                       !.stmts = <<"DELETE observations">>]
                         /\ result' = [NoResult EXCEPT !.op = "run_delete",
                                         !.matched = matched,
                                         !.deleted = matched]
                         /\ ExecDml(DeleteRows(tx, matching))
                         /\ UNCHANGED last
               ELSE /\ pc' = "idle"
                    /\ call' = [Entered("run_delete") EXCEPT
                                  !.outcome = "returned"]
                    /\ last' = "other"
                    /\ result' = [NoResult EXCEPT !.op = "run_delete",
                                    !.matched = matched]
                    /\ IF dry_run THEN Rollback
                       ELSE UNCHANGED <<disk, tx, in_transaction>>
  /\ UNCHANGED <<fts5, parked, canon, phase, ret, version, store0>>

\* operations.run_delete, line 367 and the return of lines 370-376
run_delete_commit ==
  /\ pc = "rd_commit"
  /\ Commit
  /\ Returned("run_delete")
  /\ UNCHANGED <<fts5, parked, canon, phase, ret, version, result, store0>>

\* --tag arguments of clean: "cache" and "the"
CLEAN_TAGS == { <<"c", "a", "c", "h", "e">>, <<"t", "h", "e">> }

\* operations.run_clean, lines 411-422: the rows the WHERE clause selects;
\* before, older_than_days, project and kind are None
CleanMatching(img, tag) ==
  LET tag_values == IF tag.kind = "none" \/ tag.val = <<>> THEN <<>>
                    ELSE normalize_tags_list(tag)
  IN IF tag_values = <<>> THEN DOMAIN img.rows
     ELSE {id \in DOMAIN img.rows :
             \E k \in DOMAIN tag_values :
               Contains(Lower(img.rows[id].tags_text), Lower(tag_values[k]))}

\* operations.run_clean, line 419: no filter was built
CleanUnfiltered(tag) ==
  tag.kind = "none" \/ tag.val = <<>> \/ normalize_tags_list(tag) = <<>>

\* operations.run_clean, lines 392-433 and 435-448 (vacuum is False)
run_clean ==
  /\ pc = "idle"
  /\ phase = "ready"
  /\ \E tag \in {NONE} \cup {PyStr(t) : t \in CLEAN_TAGS},
        delete_all \in BOOLEAN, dry_run \in BOOLEAN, lenient \in Lenience(tx) :
       LET matching == CleanMatching(tx, tag)
           matched == Cardinality(matching)
       IN IF CleanUnfiltered(tag) /\ ~delete_all
          THEN /\ pc' = "failed"
               /\ call' = [Entered("run_clean") EXCEPT
                             !.outcome = "ValueError"]
               /\ result' = NoResult
               /\ UNCHANGED <<disk, tx, in_transaction, last>>
          ELSE IF ~dry_run /\ matched > 0
               THEN IF DeleteFails(tx, matching, lenient)
                    THEN /\ pc' = "failed"
                         /\ call' = [Entered("run_clean") EXCEPT
                                       !.stmts = <<"DELETE observations">>,
                                       !.outcome = "DatabaseError"]
                         /\ result' = NoResult
                         /\ ExecDml(tx)
                         /\ UNCHANGED last
                    ELSE /\ pc' = "rc_commit"
                         /\ call' = [Entered("run_clean") EXCEPT
                                       !.stmts = <<"DELETE observations">>]
                         /\ result' = [NoResult EXCEPT !.op = "run_clean",
                                         !.matched = matched,
                                         !.deleted = matched]
                         /\ ExecDml(DeleteRows(tx, matching))
                         /\ UNCHANGED last
               ELSE /\ pc' = "idle"
                    /\ call' = [Entered("run_clean") EXCEPT
                                  !.outcome = "returned"]
                    /\ last' = "other"
                    /\ result' = [NoResult EXCEPT !.op = "run_clean",
                                    !.matched = matched]
                    /\ IF dry_run THEN Rollback
                       ELSE UNCHANGED <<disk, tx, in_transaction>>
  /\ UNCHANGED <<fts5, parked, canon, phase, ret, version, store0>>

\* operations.run_clean, line 434 and the return of lines 441-448
run_clean_commit ==
  /\ pc = "rc_commit"
  /\ Commit
  /\ Returned("run_clean")
  /\ UNCHANGED <<fts5, parked, canon, phase, ret, version, result, store0>>

\* operations.run_search called on the idle connection as cli._handle_search
\* calls it; the NameError of line 122 ends the process
search ==
  /\ pc = "idle"
  /\ phase = "ready"
  /\ \E query \in QUERIES, mode \in MODES, limit \in LIMITS,
        offset \in OFFSETS :
       \E ftsOrder \in Orderings(FtsIds(tx, query)) :
         LET found == run_search(tx, query, limit, offset, mode, FALSE, <<>>,
                                 ftsOrder)
         IN /\ result' = [NoResult EXCEPT !.op = "run_search",
                            !.query = query, !.mode = mode, !.limit = limit,
                            !.offset = offset, !.raised = found.raised,
                            !.items = found.items]
            /\ pc' = IF found.raised THEN "failed" ELSE "idle"
            /\ call' = [Entered("run_search") EXCEPT
                          !.outcome = IF found.raised THEN "NameError"
                                      ELSE "returned"]
            /\ last' = IF found.raised THEN last ELSE "other"
  /\ UNCHANGED <<disk, tx, in_transaction, fts5, parked, canon, phase, ret, version, store0>>

(***************************************************************************)
(* operations.py: the queries, called with every argument                  *)
(***************************************************************************)

\* queries: "FOO", "tenant:a", "_" and " "
SCOPED_QUERIES ==
  { <<"F", "O", "O">>,
    <<"t", "e", "n", "a", "n", "t", ":", "a">>, <<"_">>, <<" ">> }

\* required_tags: none, ["tenant:a", "cache"], ["tenant:a", "class"] and
\* ["Classes"]
REQUIRED_TAGS ==
  { <<>>,
    << <<"t", "e", "n", "a", "n", "t", ":", "a">>,
       <<"c", "a", "c", "h", "e">> >>,
    << <<"t", "e", "n", "a", "n", "t", ":", "a">>,
       <<"c", "l", "a", "s", "s">> >>,
    << <<"C", "l", "a", "s", "s", "e", "s">> >> }

PAGE_LIMITS == {1, Cardinality(IDS)}

PAGE_OFFSETS == {0, 1}

\* the orders ORDER BY timestamp DESC may give: rows of one timestamp come
\* in any order
TimestampOrderings(img, ids) ==
  {f \in Orderings(ids) :
     \A i, j \in DOMAIN f :
       i < j => TextLeq(img.rows[f[j]].timestamp, img.rows[f[i]].timestamp)}

\* operations.run_list, lines 277-285; order is the order of the SELECT
run_list(img, limit, offset, required_tags, order) ==
  FilterItems(SearchItems(img, Window(order, limit, offset), FALSE),
              _normalize_required_tags(required_tags))

\* operations.run_search called with required tags and a page; the query
\* is not quoted
search_with ==
  /\ pc = "idle"
  /\ phase = "ready"
  /\ \E query \in SCOPED_QUERIES, mode \in MODES, limit \in PAGE_LIMITS,
        offset \in PAGE_OFFSETS, required_tags \in REQUIRED_TAGS :
       \E ftsOrder \in Orderings(FtsIds(tx, Strip(query))) :
         LET found == run_search(tx, query, limit, offset, mode, FALSE,
                                 required_tags, ftsOrder)
         IN /\ result' = [NoResult EXCEPT !.op = "run_search",
                            !.query = query, !.mode = mode, !.limit = limit,
                            !.offset = offset, !.raised = found.raised,
                            !.items = found.items,
                            !.required = required_tags, !.order = ftsOrder,
                            !.stmts = found.stmts]
            /\ pc' = IF found.raised THEN "failed" ELSE "idle"
            /\ call' = [Entered("run_search") EXCEPT
                          !.outcome = IF found.raised THEN "NameError"
                                      ELSE "returned"]
            /\ last' = IF found.raised THEN last ELSE "other"
  /\ UNCHANGED <<disk, tx, in_transaction, fts5, parked, canon, phase, ret, version, store0>>

\* operations.run_list called on the idle connection
list ==
  /\ pc = "idle"
  /\ phase = "ready"
  /\ \E limit \in PAGE_LIMITS, offset \in PAGE_OFFSETS,
        required_tags \in REQUIRED_TAGS,
        order \in TimestampOrderings(tx, DOMAIN tx.rows) :
       result' = [NoResult EXCEPT !.op = "run_list", !.limit = limit,
                    !.offset = offset, !.required = required_tags,
                    !.order = order,
                    !.items = run_list(tx, limit, offset, required_tags,
                                       order),
                    !.stmts = <<TABLE_SELECT>>]
  /\ call' = [Entered("run_list") EXCEPT !.outcome = "returned"]
  /\ last' = "other"
  /\ UNCHANGED <<disk, tx, in_transaction, fts5, parked, canon, phase, ret, version, store0, pc>>

\* --timestamp arguments: three minutes in ISO_FORMAT and the second one
\* written with an offset
TIMESTAMPS == {IsoText(1), IsoText(2), IsoText(3), OffsetText(2)}

\* start and end arguments
BOUNDS == {NoBound, PyStr(IsoText(1)), PyStr(IsoText(2))}

\* an around_id that is not None
AnchorId(n) == [kind |-> "int", val |-> n]

WINDOW_MINUTES == {0, 1}

\* cli._handle_add with --timestamp given, and operations.add_observation
\* up to its commit
add_observation_at ==
  /\ pc = "idle"
  /\ phase = "ready"
  /\ tx.seq < MaxId
  /\ \E timestamp \in TIMESTAMPS :
       LET row == [NewRow(<<"f", "o", "o">>, <<>>) EXCEPT
                     !.timestamp = timestamp]
       IN /\ ExecDml(InsertRow(tx, row))
          /\ call' = [Written("add_observation", PyStr(<<>>), NextId(tx))
                        EXCEPT !.stmts = <<"INSERT observations">>]
  /\ pc' = "ao_commit"
  /\ result' = NoResult
  /\ UNCHANGED <<fts5, parked, canon, phase, ret, version, last, store0>>

\* datetime.strptime(text, ISO_FORMAT) raises ValueError
StrptimeFails(text) == text.zone # "Z"

\* lines 174-177: the anchor's timestamp minus and plus window_minutes,
\* written with strftime(ISO_FORMAT)
AnchorStart(text, window_minutes) == IsoText(text.minute - window_minutes)
AnchorEnd(text, window_minutes) == IsoText(text.minute + window_minutes)

\* a WHERE clause that leaves the bounds themselves out
Between_exclusive(text, start, end) ==
  /\ start.kind = "none"
     \/ (TextLeq(start.val, text) /\ start.val # text)
  /\ end.kind = "none"
     \/ (TextLeq(text, end.val) /\ end.val # text)

\* lines 181-188: timestamp >= ? for a start, timestamp <= ? for an end
Between(text, start, end) ==
  /\ start.kind = "none" \/ TextLeq(start.val, text)
  /\ end.kind = "none" \/ TextLeq(text, end.val)

\* the rows the SELECT of run_timeline selects
TimelineIds(img, start, end) ==
  {id \in DOMAIN img.rows : Between(img.rows[id].timestamp, start, end)}

\* the bounds run_timeline queries with (lines 166-177)
TimelineBounds(img, start, end, around_id, window_minutes) ==
  IF around_id.kind = "none" THEN [start |-> start, end |-> end]
  ELSE [start |-> PyStr(AnchorStart(img.rows[around_id.val].timestamp,
                                    window_minutes)),
        end |-> PyStr(AnchorEnd(img.rows[around_id.val].timestamp,
                                window_minutes))]

\* the ValueError of run_timeline, "none" when it returns
TimelineError(img, around_id) ==
  IF around_id.kind = "none" THEN "none"
  ELSE IF around_id.val \notin DOMAIN img.rows THEN "not found"
       ELSE IF StrptimeFails(img.rows[around_id.val].timestamp)
            THEN "does not match format"
            ELSE "none"

\* operations.run_timeline, called on the idle connection
timeline ==
  /\ pc = "idle"
  /\ phase = "ready"
  /\ \E start \in BOUNDS, end \in BOUNDS,
        around_id \in {NoAnchor} \cup {AnchorId(i) : i \in IDS},
        window_minutes \in WINDOW_MINUTES,
        limit \in PAGE_LIMITS, offset \in PAGE_OFFSETS :
       LET error == TimelineError(tx, around_id)
           asked == [NoResult EXCEPT !.op = "run_timeline",
                       !.start = start, !.end = end,
                       !.around_id = around_id,
                       !.window_minutes = window_minutes,
                       !.limit = limit, !.offset = offset,
                       !.stmts = IF around_id.kind = "none"
                                 THEN <<TABLE_SELECT>>
                                 ELSE <<"SELECT timestamp", TABLE_SELECT>>]
       IN IF error # "none"
          THEN /\ result' = [asked EXCEPT !.raised = TRUE, !.error = error,
                                          !.stmts = <<"SELECT timestamp">>]
               /\ pc' = "failed"
               /\ call' = [Entered("run_timeline") EXCEPT
                             !.outcome = "ValueError"]
               /\ last' = last
          ELSE LET bounds == TimelineBounds(tx, start, end, around_id,
                                            window_minutes)
               IN \E order \in TimestampOrderings(tx,
                                 TimelineIds(tx, bounds.start, bounds.end)) :
                    /\ result' = [asked EXCEPT
                                    !.order = order,
                                    !.items = SearchItems(tx,
                                                Window(order, limit, offset),
                                                FALSE)]
                    /\ pc' = "idle"
                    /\ call' = [Entered("run_timeline") EXCEPT
                                  !.outcome = "returned"]
                    /\ last' = "other"
  /\ UNCHANGED <<disk, tx, in_transaction, fts5, parked, canon, phase, ret, version, store0>>

(***************************************************************************)
(* utils.py: the functions of the tag canonicalizer, called on their own   *)
(***************************************************************************)

\* tags a token list holds at most
MaxTags == 2

\* tokens: "Running", "run", "RUNS", "Classes", "the", "this", "cache",
\* " Foo "
WORDS ==
  {
    <<"R", "u", "n", "n", "i", "n", "g">>,
    <<"r", "u", "n">>,
    <<"R", "U", "N", "S">>,
    <<"C", "l", "a", "s", "s", "e", "s">>,
    <<"t", "h", "e">>,
    <<"t", "h", "i", "s">>,
    <<"c", "a", "c", "h", "e">>,
    <<" ", "F", "o", "o", " ">>
  }

\* the token lists of at most MaxTags tokens
TokenLists == UNION {[1..n -> WORDS] : n \in 0..MaxTags}

\* the three representations of a token list: native list, comma-separated
\* string, JSON array string
AsList(tokens) == PyList(tokens)

AsCsv(tokens) == PyStr(Join(tokens, <<",">>))

AsJson(tokens) == PyStr(tags_to_json(tokens))

\* strings that start with "[" and are no JSON document: "[cache, foo",
\* "[", "[\"run\"" and arrays nested one level deeper than the decoder
\* accepts
MALFORMED ==
  {
    <<"[", "c", "a", "c", "h", "e", ",", " ", "f", "o", "o">>,
    <<"[">>,
    <<"[", "\"", "r", "u", "n", "\"">>,
    [i \in 1..(MaxJsonDepth + 1) |-> "["]
  }

\* further string arguments: "" and "a, the, cache"
EXAMPLE_STRINGS ==
  { <<>>,
    <<"a", ",", " ", "t", "h", "e", ",", " ", "c", "a", "c", "h", "e">> }

\* further list arguments: ["Running", "run", "RUNS"] and
\* ["a\"b", "c\\d", "cache"]
EXAMPLE_LISTS ==
  { << <<"R", "u", "n", "n", "i", "n", "g">>,
              <<"r", "u", "n">>,
              <<"R", "U", "N", "S">> >>,
    << <<"a", "\"", "b">>,
              <<"c", "\\", "d">>,
              <<"c", "a", "c", "h", "e">> >> }

\* the list arguments and the string arguments of normalize_tags_list
TAG_LISTS == {AsList(t) : t \in TokenLists \cup EXAMPLE_LISTS}

TAG_STRINGS ==
  {AsCsv(t) : t \in TokenLists} \cup {AsJson(t) : t \in TokenLists}
    \cup {PyStr(m) : m \in MALFORMED \cup EXAMPLE_STRINGS}

\* stems "r", "ru", "run", "runn", "class", "thi", "ax" and endings "", "s",
\* "es", "ed", "ing"
STEMS ==
  {
    <<"r">>,
    <<"r", "u">>,
    <<"r", "u", "n">>,
    <<"r", "u", "n", "n">>,
    <<"c", "l", "a", "s", "s">>,
    <<"t", "h", "i">>,
    <<"a", "x">>
  }

ENDINGS ==
  {
    <<>>,
    <<"s">>,
    <<"e", "s">>,
    <<"e", "d">>,
    <<"i", "n", "g">>
  }

TOKENS == {stem \o ending : stem \in STEMS, ending \in ENDINGS}

StoreVars ==
  <<disk, tx, in_transaction, fts5, phase, pc, ret, version, call, last,
    result, store0, parked>>

\* the record of normalize_tags_list(tags)
Normalized(tags) ==
  [NoCanon EXCEPT
     !.fn = "normalize_tags_list", !.arg = tags,
     !.raised = normalize_tags_list_raises(tags),
     !.out = IF normalize_tags_list_raises(tags) THEN NONE
             ELSE PyList(normalize_tags_list(tags)),
     !.fn_prev = "input"]

\* normalize_tags_list(tags) for an argument the caller supplies: a list, a
\* str or None.  A behaviour is one chain of calls: the first call takes its
\* argument from the caller, each later call takes the result of the call
\* before it.
canon_normalize_tags_list ==
  /\ canon = NoCanon
  /\ \/ \E tags \in TAG_LISTS : canon' = Normalized(tags)
     \/ \E tags \in TAG_STRINGS : canon' = Normalized(tags)
     \/ canon' = Normalized(NONE)
  /\ UNCHANGED StoreVars

\* normalize_tags_list applied to the list normalize_tags_list returned
canon_normalize_again ==
  /\ canon.fn = "normalize_tags_list"
  /\ ~canon.raised
  /\ canon' = [NoCanon EXCEPT
                 !.fn = "normalize_tags_list", !.arg = canon.out,
                 !.out = PyList(normalize_tags_list(canon.out)),
                 !.prev = canon.arg, !.fn_prev = "normalize_tags_list"]
  /\ UNCHANGED StoreVars

\* normalize_tags_list applied to one token list in its three representations
canon_normalize_representations ==
  /\ canon = NoCanon
  /\ \E tokens \in TokenLists :
       canon' = [NoCanon EXCEPT
                   !.fn = "normalize_tags_list", !.arg = AsList(tokens),
                   !.out = PyList(normalize_tags_list(AsList(tokens))),
                   !.csv_out = PyList(normalize_tags_list(AsCsv(tokens))),
                   !.json_out = PyList(normalize_tags_list(AsJson(tokens))),
                   !.fn_prev = "input"]
  /\ UNCHANGED StoreVars

\* stem_token(token)
canon_stem_token ==
  /\ canon = NoCanon
  /\ \E token \in TOKENS :
       canon' = [NoCanon EXCEPT
                   !.fn = "stem_token", !.arg = PyStr(token),
                   !.out = PyStr(stem_token(token)), !.fn_prev = "input"]
  /\ UNCHANGED StoreVars

\* tags_to_json applied to the list normalize_tags_list returned
canon_tags_to_json ==
  /\ canon.fn = "normalize_tags_list"
  /\ ~canon.raised
  /\ canon' = [NoCanon EXCEPT
                 !.fn = "tags_to_json", !.arg = canon.out,
                 !.out = PyStr(tags_to_json(canon.out.val)),
                 !.prev = canon.arg, !.fn_prev = "normalize_tags_list"]
  /\ UNCHANGED StoreVars

\* parse_tags_json applied to the text tags_to_json returned
canon_parse_tags_json ==
  /\ canon.fn = "tags_to_json"
  /\ canon' = [NoCanon EXCEPT
                 !.fn = "parse_tags_json", !.arg = canon.out,
                 !.out = PyList(parse_tags_json(canon.out.val)),
                 !.prev = canon.arg, !.fn_prev = "tags_to_json"]
  /\ UNCHANGED StoreVars

\* the statements of ensure_schema, migrate_schema, rebuild_fts and ensure_fts
SchemaBody ==
  \/ ensure_schema_sessions \/ ensure_schema_checkpoints
  \/ migrate_get_version \/ migrate_check \/ migrate_step1
  \/ migrate_step2_alter \/ migrate_step2_backfill
  \/ rebuild_fts_drop_ai \/ rebuild_fts_drop_ad \/ rebuild_fts_drop_au
  \/ rebuild_fts_drop_table
  \/ ensure_fts_create_table \/ ensure_fts_trigger_ai
  \/ ensure_fts_trigger_ad \/ ensure_fts_trigger_au \/ ensure_fts_commit
  \/ migrate_step2_version \/ migrate_step3_alter \/ migrate_step3_version
  \/ migrate_step4_create \/ migrate_step4_version \/ ensure_schema_commit

SchemaStep == ensure_schema \/ ensure_fts \/ SchemaBody

\* the statements of the operations that write observations
WriteStep ==
  \/ add_observation \/ add_observation_commit
  \/ run_edit \/ run_edit_commit
  \/ run_delete \/ run_delete_commit
  \/ run_clean \/ run_clean_commit

\* Schema management and search on the stores of every release: each process
\* brings the store up to date and may then query it.
Next == SchemaStep \/ search \/ Exit \/ Crash

Spec == Init /\ [][Next]_vars

\* The write operations on a store that holds no row when it is initialised:
\* a new database file, or the empty store of the first release.
InitOps == Init /\ disk.rows = NoRows /\ disk.meta = <<>>

NextOps == SchemaStep \/ WriteStep \/ Exit \/ Crash

SpecOps == InitOps /\ [][NextOps]_vars

\* Every path that writes the tags of an observation, on the stores of every
\* release.  As in cli.main (lines 262-300) a process opens the store, calls
\* ensure_schema and ensure_fts once and then makes one call: add or capture,
\* edit, import, or one of the two loggers.
FirstCall == call.op = "ensure_fts" /\ call.outcome = "returned"

NextWrites ==
  \/ phase = "new" /\ ensure_schema
  \/ phase = "schema" /\ ensure_fts
  \/ SchemaBody
  \/ FirstCall /\ add_observation
  \/ FirstCall /\ run_edit
  \/ FirstCall /\ run_import
  \/ FirstCall /\ log_tool_call
  \/ FirstCall /\ log_agent_transition
  \/ add_observation_commit \/ run_edit_commit \/ run_import_commit

SpecWrites == Init /\ [][NextWrites]_vars

\* one process that adds observations and then makes one query, on a new
\* store or on one an earlier release wrote
InitQuery ==
  Init /\ (disk = EmptyStore \/ disk.meta = <<"1">>)

NextQuery ==
  \/ phase = "new" /\ ensure_schema
  \/ phase = "schema" /\ ensure_fts
  \/ SchemaBody
  \/ add_observation
  \/ add_observation_commit
  \/ result = NoResult /\ search_with
  \/ result = NoResult /\ list

SpecQuery == InitQuery /\ [][NextQuery]_vars

\* one process that adds at most one observation, then edits one and
\* searches, or deletes
AfterAdd == call.op = "add_observation" /\ call.outcome = "returned"

AfterEdit == call.op = "run_edit" /\ call.outcome = "returned"

NextEdit ==
  \/ phase = "new" /\ ensure_schema
  \/ phase = "schema" /\ ensure_fts
  \/ SchemaBody
  \/ FirstCall /\ add_observation
  \/ add_observation_commit
  \/ (FirstCall \/ AfterAdd) /\ run_edit
  \/ run_edit_commit
  \/ AfterEdit /\ search
  \/ (FirstCall \/ AfterAdd) /\ run_delete
  \/ run_delete_commit

SpecEdit == InitQuery /\ [][NextEdit]_vars

\* one process that adds observations with timestamps of its choice to a new
\* store and then asks for one timeline
InitTimeline == Init /\ disk = EmptyStore

NextTimeline ==
  \/ phase = "new" /\ ensure_schema
  \/ phase = "schema" /\ ensure_fts
  \/ SchemaBody
  \/ add_observation_at
  \/ add_observation_commit
  \/ result = NoResult /\ timeline

SpecTimeline == InitTimeline /\ [][NextTimeline]_vars

\* Two processes start on a store of an earlier release, each on its own
\* connection, and bring it up to date.
InitConcurrent ==
  /\ disk \in LegacyStores
  /\ tx = disk
  /\ store0 = disk
  /\ in_transaction = FALSE
  /\ fts5 \in BOOLEAN
  /\ phase = "new"
  /\ pc = "idle"
  /\ ret = "idle"
  /\ version = 0
  /\ call = NoCall
  /\ last = "none"
  /\ result = NoResult
  /\ parked = NewProcess
  /\ canon = NoCanon

NextConcurrent == SchemaStep \/ Switch

SpecConcurrent == InitConcurrent /\ [][NextConcurrent]_vars

\* The functions of the tag canonicalizer applied to arguments of every
\* representation, and to each other's results.
InitCanon == Init /\ disk = EmptyStore /\ fts5

NextCanon ==
  \/ canon_normalize_tags_list \/ canon_normalize_again
  \/ canon_normalize_representations \/ canon_stem_token
  \/ canon_tags_to_json \/ canon_parse_tags_json

SpecCanon == InitCanon /\ [][NextCanon]_vars

(***************************************************************************)
(* Properties                                                              *)
(***************************************************************************)

\* the index holds one document per row, and it is the row's current one
IndexMirrors(img) ==
  /\ DOMAIN img.docs = DOMAIN img.rows
  /\ \A id \in DOMAIN img.rows : img.docs[id] = Entry(img.rows[id])

\* the schema version a store records: 0 without a readable meta row
RecordedVersion(img) == get_schema_version(img)

\* the running or just ended call is ensure_schema
InEnsureSchema == call.op = "ensure_schema"

\* C1: on a store that holds no row when ensure_schema and ensure_fts
\* initialise it, every committed state reached by add_observation, run_edit,
\* run_delete and run_clean has an index entry for id i exactly when row i
\* exists, and the entry equals the row's title, summary, tags_text and raw.
C1_IndexMatchesRows == disk.fts_table => IndexMirrors(disk)

\* a committed store with the index where two rows were added, one was
\* deleted and the other has just been edited
C1_Witness ==
  /\ disk.fts_table
  /\ disk.seq = MaxId
  /\ Cardinality(DOMAIN disk.rows) = 1
  /\ call.op = "run_edit" /\ call.outcome = "returned"
  /\ \E id \in DOMAIN disk.rows : disk.rows[id].tags_text # <<>>
  /\ IndexMirrors(disk)

\* C2: immediately after rebuild_fts returns, the index holds an entry for
\* every row of the primary table, mirroring its title, summary, tags_text
\* and raw, and no other entry.
C2_RebuildRegenerates ==
  (pc = "ms_step2_version" /\ tx.fts_table) => IndexMirrors(tx)

\* C3: when ensure_schema returns from a store whose recorded version was
\* below 2, every row the store held has tags_text equal to the space-joined
\* normalize_tags_list of its legacy tags value and tags equal to the JSON
\* encoding of that list; no row is skipped.
C3_BackfillComplete ==
  (InEnsureSchema /\ call.outcome = "returned"
     /\ RecordedVersion(call.before) < 2)
  => \A id \in DOMAIN call.before.rows :
       LET tags_list == normalize_tags_list(PyStr(call.before.rows[id].tags))
       IN /\ id \in DOMAIN disk.rows
          /\ disk.rows[id].tags_text = tags_to_text(tags_list)
          /\ disk.rows[id].tags = tags_to_json(tags_list)

\* ensure_schema has returned from a version-1 store whose row carried the
\* tags "Classes, the": the row now has tags_text "class"
C3_Witness ==
  /\ InEnsureSchema /\ call.outcome = "returned"
  /\ RecordedVersion(call.before) < 2
  /\ 1 \in DOMAIN call.before.rows
  /\ call.before.rows[1].tags
       = <<"C", "l", "a", "s", "s", "e", "s", ",", " ", "t", "h", "e">>
  /\ disk.rows[1].tags_text = <<"c", "l", "a", "s", "s">>
  /\ disk.rows[1].tags = <<"[", "\"", "c", "l", "a", "s", "s", "\"", "]">>

\* the store was migrated from a recorded version below 2
MigratedFromLegacy ==
  RecordedVersion(store0) < 2 /\ RecordedVersion(disk) = SCHEMA_VERSION

\* C4: after ensure_schema has migrated a store from a recorded version below
\* 2, run_search with a query equal to one of the tags of a pre-existing row
\* returns that row, in auto mode and in like mode.
C4_MigratedRowsFindable ==
  (MigratedFromLegacy /\ result.op = "run_search"
     /\ result.mode \in {"auto", "like"})
  => \A id \in DOMAIN store0.rows \cap DOMAIN disk.rows :
       result.query \in Range(parse_tags_json(disk.rows[id].tags))
       => /\ ~result.raised
          /\ \E k \in DOMAIN result.items : result.items[k].id = id

\* the statements that create or alter a table
TABLE_STATEMENTS ==
  {"CREATE TABLE observations", "CREATE TABLE sessions",
   "CREATE TABLE checkpoints", "CREATE TABLE meta",
   "ALTER TABLE observations"}

\* C5: when the recorded version is greater than SCHEMA_VERSION, ensure_schema
\* fails with an error: it applies no migration step, leaves the recorded
\* version unchanged and never returns normally.
C5_NewerStoreRejected ==
  (InEnsureSchema /\ RecordedVersion(call.before) > SCHEMA_VERSION)
  => /\ call.steps = <<>>
     /\ RecordedVersion(tx) = RecordedVersion(call.before)
     /\ RecordedVersion(disk) = RecordedVersion(call.before)
     /\ pc \in {"es_sessions", "es_checkpoints", "ms_get_version", "ms_check",
                "failed"}
     /\ call.outcome = (IF pc = "failed" THEN "RuntimeError" ELSE "running")

\* ensure_schema has raised RuntimeError on a store that records version 5
C5_Witness ==
  /\ InEnsureSchema /\ call.outcome = "RuntimeError" /\ pc = "failed"
  /\ call.before.meta = <<"5">>
  /\ disk.meta = <<"5">>

\* C6: when the recorded version exceeds SCHEMA_VERSION, ensure_schema aborts
\* before any statement that creates or alters a table (observations,
\* sessions, checkpoints, meta) is executed, so the store is as it was.
C6_AbortsBeforeAnyStatement ==
  (InEnsureSchema /\ call.outcome = "RuntimeError")
  => /\ \A i \in DOMAIN call.stmts : call.stmts[i] \notin TABLE_STATEMENTS
     /\ disk = call.before

\* C7: a second ensure_schema in a row leaves the store exactly as the first
\* one left it: same recorded version, tables, columns, rows and index, from
\* its first statement to its return, and it does not fail.
C7_SecondCallChangesNothing ==
  (InEnsureSchema /\ call.prev = "ensure_schema")
  => /\ call.outcome \in {"running", "returned"}
     /\ tx = call.before
     /\ disk = call.before

\* the second ensure_schema in a row has returned on a migrated store that
\* holds a row
C7_Witness ==
  /\ InEnsureSchema /\ call.prev = "ensure_schema"
  /\ call.outcome = "returned"
  /\ RecordedVersion(store0) < 2
  /\ disk.rows # NoRows
  /\ disk = call.before

\* C8: from a recorded version v with 0 <= v <= SCHEMA_VERSION, ensure_schema
\* sets the versions v+1, v+2, ..., SCHEMA_VERSION in this order, skipping
\* none, and ends with the recorded version SCHEMA_VERSION; the recorded
\* version never goes below v.
C8_VersionChain ==
  (InEnsureSchema /\ RecordedVersion(call.before) <= SCHEMA_VERSION)
  => LET v == RecordedVersion(call.before)
     IN /\ call.outcome \in {"running", "returned"}
        /\ \A i \in DOMAIN call.steps : call.steps[i] = v + i
        /\ pc = "es_commit" => /\ Len(call.steps) = SCHEMA_VERSION - v
                               /\ RecordedVersion(tx) = SCHEMA_VERSION
        /\ call.outcome = "returned" => RecordedVersion(disk) = SCHEMA_VERSION
        /\ RecordedVersion(disk) >= v
        /\ RecordedVersion(tx) >= RecordedVersion(disk)

\* the rows one uninterrupted ensure_schema leaves from the rows of a store
\* below version 2
MigratedRows(img) ==
  [id \in DOMAIN img.rows |->
     LET tags_list == normalize_tags_list(PyStr(img.rows[id].tags))
     IN [img.rows[id] EXCEPT !.tags = tags_to_json(tags_list),
                             !.tags_text = tags_to_text(tags_list)]]

\* C9: when ensure_schema was killed while migrating a store below version 2
\* and is run again, it runs to completion, and the store it leaves has the
\* recorded version and the tags and tags_text of every row that one
\* uninterrupted run on the original store produces.
C9_RerunAfterCrash ==
  (InEnsureSchema /\ call.prev = "crash" /\ RecordedVersion(store0) < 2)
  => /\ call.outcome \in {"running", "returned"}
     /\ call.outcome = "returned"
        => /\ RecordedVersion(disk) = SCHEMA_VERSION
           /\ disk.rows = MigratedRows(store0)

\* the data effects of the step for version 2: a backfilled row, or the
\* rebuilt index
Step2Effects(img) ==
  \/ img.fts_table
  \/ \E id \in DOMAIN img.rows : img.rows[id].tags_text # <<>>

\* C10: in every committed state the effects of the step for version 2
\* (backfilled tags and tags_text, the rebuilt index) are present only if the
\* recorded version is at least 2.
C10_EffectsCommittedWithVersion ==
  Step2Effects(disk) => RecordedVersion(disk) >= 2

\* C11: when the SQLite build has no fts5 module, so that rebuild_fts cannot
\* create the index while ensure_schema migrates a store below version 2,
\* ensure_schema fails with an error and the recorded version stays below 2.
C11_RebuildFailureIsFatal ==
  (InEnsureSchema /\ ~fts5 /\ RecordedVersion(call.before) < 2)
  => /\ call.outcome # "returned"
     /\ RecordedVersion(tx) < 2
     /\ RecordedVersion(disk) < 2

\* both processes have called ensure_schema on the store while it recorded
\* a version below 2, and both calls have ended
BothMigrated ==
  /\ InEnsureSchema /\ call.outcome # "running"
  /\ RecordedVersion(call.before) < 2
  /\ parked.call.op = "ensure_schema" /\ parked.call.outcome # "running"
  /\ RecordedVersion(parked.call.before) < 2

\* C12: when two processes call ensure_schema concurrently on a store below
\* version 2, each on its own connection and interleaved as the write lock
\* allows, every row's tags and tags_text are what one ensure_schema call
\* produces, and the recorded version is SCHEMA_VERSION.
C12_ConcurrentMigration ==
  BothMigrated
  => /\ disk.rows = MigratedRows(store0)
     /\ RecordedVersion(disk) = SCHEMA_VERSION

\* ---------------------------------------------------------------------------
\* the tag canonicalizer

\* C13: canonicalization is idempotent: normalize_tags_list applied to a list
\* that normalize_tags_list returned gives that list back
C13_Idempotent ==
  (canon.fn = "normalize_tags_list" /\ canon.fn_prev = "normalize_tags_list")
  => canon.out = canon.arg

\* the list ["Running", "run", "RUNS"]
RunVariants ==
  PyList(<< <<"R", "u", "n", "n", "i", "n", "g">>,
            <<"r", "u", "n">>,
            <<"R", "U", "N", "S">> >>)

\* C14: normalize_tags_list(["Running", "run", "RUNS"]) returns exactly
\* ["run"]: case variants and suffix variants of one word collapse to one tag
C14_VariantsCollapse ==
  (/\ canon.fn = "normalize_tags_list"
   /\ canon.arg.kind = "list"
   /\ canon.arg = RunVariants)
  => canon.out = PyList(<< <<"r", "u", "n">> >>)

\* token without its last n characters
Stripped(token, n) == SubSeq(token, 1, Len(token) - n)

\* the positions in SUFFIXES of the suffixes the token ends with
Matching(token) == {k \in DOMAIN SUFFIXES : EndsWith(token, SUFFIXES[k])}

\* the positions of the suffixes the token ends with and is more than two
\* characters longer than
Strippable(token) ==
  {k \in Matching(token) : Len(token) > Len(SUFFIXES[k]) + 2}

Least(S) == CHOOSE k \in S : \A j \in S : k <= j

\* C15 as stated: stem_token strips the first of ing, ed, es, s that the token
\* ends with, and only when the stem that remains is longer than
\* len(suffix)+2; otherwise the token is returned unchanged
C15_FirstMatchStemLength ==
  canon.fn = "stem_token"
  => LET token == canon.arg.val
         first == SUFFIXES[Least(Matching(token))]
     IN canon.out.val =
          IF Matching(token) # {}
             /\ Len(token) - Len(first) > Len(first) + 2
          THEN Stripped(token, Len(first))
          ELSE token

\* C15: stem_token tries ing, ed, es, s in that order and strips the first
\* suffix that the token ends with and that is more than two characters
\* shorter than the whole token; a suffix that matches but fails the length
\* test is skipped; when no suffix passes both tests the token is unchanged
C15_StemRule ==
  canon.fn = "stem_token"
  => LET token == canon.arg.val
     IN canon.out.val =
          IF Strippable(token) = {} THEN token
          ELSE Stripped(token, Len(SUFFIXES[Least(Strippable(token))]))

\* stem_token("axes") = "axe": "es" matches and fails the length test, "s" is
\* stripped
C15_Witness ==
  /\ canon.fn = "stem_token"
  /\ canon.arg.val = <<"a", "x", "e", "s">>
  /\ canon.out.val = <<"a", "x", "e">>

\* every token of the list is a stopword once trimmed and lower-cased
AllStopwords(tokens) ==
  \A i \in DOMAIN tokens : Lower(normalize_text(tokens[i])) \in TAG_BLACKLIST

\* C16: stopwords are dropped: a list whose tokens, trimmed and lower-cased,
\* all belong to TAG_BLACKLIST is normalized to the empty list
C16_StopwordsDropped ==
  (/\ canon.fn = "normalize_tags_list"
   /\ canon.arg.kind = "list"
   /\ AllStopwords(canon.arg.val))
  => canon.out = PyList(<<>>)

\* the argument is a str that starts with "[" and is no JSON document
MalformedJson(tags) ==
  /\ tags.kind = "str"
  /\ Strip(tags.val) # <<>>
  /\ Head(Strip(tags.val)) = "["
  /\ ~json_loads(Strip(tags.val)).ok

\* the result of treating the str as a comma-separated string
AsCommaSeparated(tags) ==
  LET parts == SplitOn(Strip(tags.val), ",", <<>>)
  IN PyList(NormalizeCandidates([i \in DOMAIN parts |-> Strip(parts[i])],
                                <<>>))

\* C17: the native list, the comma-separated string and the JSON array string
\* of one token sequence are normalized to the same list, and a str that
\* starts with "[" and is no valid JSON is treated as a comma-separated string
\* and never raises
C17_RepresentationsConverge ==
  /\ (canon.fn = "normalize_tags_list" /\ canon.csv_out # NONE)
     => (canon.csv_out = canon.out /\ canon.json_out = canon.out)
  /\ (canon.fn = "normalize_tags_list" /\ MalformedJson(canon.arg))
     => (~canon.raised /\ canon.out = AsCommaSeparated(canon.arg))

\* the three representations of [" Foo ", "Classes"] all give
\* ["foo", "class"]
C17_ConvergenceReached ==
  /\ canon.fn = "normalize_tags_list"
  /\ canon.arg.kind = "list"
  /\ canon.arg = PyList(<< <<" ", "F", "o", "o", " ">>,
                           <<"C", "l", "a", "s", "s", "e", "s">> >>)
  /\ canon.csv_out = PyList(<< <<"f", "o", "o">>,
                               <<"c", "l", "a", "s", "s">> >>)
  /\ canon.json_out = canon.csv_out
  /\ canon.out = canon.csv_out

\* C18: for every canonical tag list L, the empty list included,
\* parse_tags_json(tags_to_json(L)) = L, order preserved
C18_RoundTrip ==
  (canon.fn = "parse_tags_json" /\ canon.fn_prev = "tags_to_json")
  => canon.out = canon.prev

\* the list ["a\"b", "c\\d", "cache"] came back from its encoding
C18_Witness ==
  /\ canon.fn = "parse_tags_json"
  /\ canon.fn_prev = "tags_to_json"
  /\ canon.prev = PyList(<< <<"a", "\"", "b">>,
                            <<"c", "\\", "d">>,
                            <<"c", "a", "c", "h", "e">> >>)
  /\ canon.out = canon.prev

\* ---------------------------------------------------------------------------
\* the write paths

\* the tags_text column is the space-join of the list decoded from tags
TagsAgree(row) == row.tags_text = tags_to_text(parse_tags_json(row.tags))

AllTagsAgree(img) ==
  "tags_text" \in img.columns
  => \A id \in DOMAIN img.rows : TagsAgree(img.rows[id])

\* run_edit has executed its UPDATE of row call.obs_id
Edited ==
  call.op = "run_edit" /\ call.outcome \in {"running", "returned"}

TagsWritten ==
  /\ call.op \in {"add_observation", "run_edit", "run_import",
                  "log_tool_call", "log_agent_transition"}
  /\ call.obs_id \in DOMAIN tx.rows
  /\ call.tags # NONE

\* C20: writes pass through the tag canonicalizer: the tag list stored by
\* add and capture, run_edit with tags, run_import, log_tool_call and
\* log_agent_transition is normalize_tags_list of the tags supplied
C20_WritesCanonicalized ==
  TagsWritten
  => parse_tags_json(tx.rows[call.obs_id].tags) = normalize_tags_list(call.tags)

\* add_observation has stored normalize_tags_list of its --tags argument
C20_AddCanonicalized ==
  /\ TagsWritten
  /\ call.op = "add_observation"
  /\ call.outcome = "returned"
  /\ parse_tags_json(disk.rows[call.obs_id].tags) =
       normalize_tags_list(call.tags)
  /\ disk.rows[call.obs_id].tags # <<"[", "]">>

(***************************************************************************)
(* Properties: the queries                                                 *)
(***************************************************************************)

TENANT_A == <<"t", "e", "n", "a", "n", "t", ":", "a">>

\* the tags of the stored row with this id
StoredTags(id) == Range(parse_tags_json(tx.rows[id].tags))

\* the ids of a result, in its order
ResultIds == [k \in DOMAIN result.items |-> result.items[k].id]

\* the rows that carry every tag of the normalized required_tags
Scoped(required_tags) ==
  {id \in DOMAIN tx.rows :
     Range(normalize_tags_list(PyList(required_tags))) \subseteq StoredTags(id)}

\* C21: every item run_search or run_list returns for non-empty
\* required_tags is a row whose stored tags contain every element of
\* normalize_tags_list(required_tags); a scan over the whole table returns
\* exactly the matching rows that carry them all.
C21_RequiredTagsAllPresent ==
  (result.op \in {"run_search", "run_list"} /\ result.required # <<>>)
  => /\ Range(ResultIds) \subseteq Scoped(result.required)
     /\ (result.op = "run_search" /\ result.mode = "like"
           /\ Strip(result.query) # <<>> /\ result.offset = 0 /\ result.limit >= Cardinality(DOMAIN tx.rows))
        => Range(ResultIds)
             = LikeIds(tx, Strip(result.query)) \cap Scoped(result.required)

\* a scan for "FOO" scoped to tenant:a and cache returned one of two
\* matching rows: the other lacks the tags
C21_Witness ==
  /\ result.op = "run_search" /\ result.mode = "like"
  /\ result.query = <<"F", "O", "O">>
  /\ result.required = <<TENANT_A, <<"c", "a", "c", "h", "e">> >>
  /\ Len(result.items) = 1
  /\ Cardinality(LikeIds(tx, result.query)) = 2

\* what the query of the last result returns when it is given no
\* required_tags and the same rows in the same order
Unscoped ==
  IF result.op = "run_list"
  THEN run_list(tx, result.limit, result.offset, <<>>, result.order)
  ELSE run_search(tx, result.query, result.limit, result.offset, result.mode,
                  FALSE, <<>>, result.order).items

\* C22: the required-tags filter is applied to the page LIMIT/OFFSET cut:
\* run_list and run_search with required_tags return the items of the same
\* call without required_tags, the non-matching ones removed and the order
\* kept, so a page holds at most limit items and may hold fewer.
C22_FilterAfterWindow ==
  (result.op \in {"run_search", "run_list"} /\ ~result.raised)
  => /\ result.items
          = FilterItems(Unscoped, _normalize_required_tags(result.required))
     /\ Len(result.items) <= result.limit

\* a page of one row came back empty although a row further down carries
\* the required tags
C22_Witness ==
  /\ result.op = "run_list" /\ result.limit = 1 /\ result.offset = 0
  /\ result.required # <<>>
  /\ result.items = <<>>
  /\ Scoped(result.required) # {}

\* C23: run_search with an empty or whitespace-only query returns the empty
\* list in every mode, the fts mode on a store without index included: it
\* executes no statement, raises nothing and leaves the store as it was.
C23_EmptyQueryReturnsNothing ==
  (result.op = "run_search" /\ Strip(result.query) = <<>>)
  => /\ result.items = <<>>
     /\ ~result.raised
     /\ result.stmts = <<>>
     /\ call.outcome = "returned"
     /\ tx = call.before /\ disk = call.before /\ ~in_transaction

\* the query " " was made in fts mode on a store that has rows and no index
C23_Witness ==
  /\ result.op = "run_search" /\ result.query = <<" ">>
  /\ result.mode = "fts"
  /\ ~tx.fts_table
  /\ DOMAIN tx.rows # {}
  /\ result.items = <<>> /\ ~result.raised

\* the result of the LIKE scan for the arguments of the last run_search
LikeResult ==
  FilterItems(
    SearchItems(tx, Window(IdsDescending(LikeIds(tx, Strip(result.query))),
                           result.limit, result.offset), FALSE),
    _normalize_required_tags(result.required))

\* the index query of the last run_search fails
IndexFails ==
  /\ result.op = "run_search"
  /\ Strip(result.query) # <<>>
  /\ FtsRaises(tx, Strip(result.query))

\* C24: when the index query fails, run_search in fts mode propagates the
\* error and in auto mode returns the result of the LIKE scan without an
\* error; in like mode the index is never queried.
C24_IndexErrorsDegradePerMode ==
  /\ (IndexFails /\ result.mode = "fts") => result.raised
  /\ (IndexFails /\ result.mode = "auto")
     => (~result.raised /\ result.items = LikeResult)
  /\ (result.op = "run_search" /\ result.mode = "like")
     => (~result.raised /\ INDEX_SELECT \notin Range(result.stmts))

\* run_search failed in fts mode on a store that has rows and no index
C24_FtsModePropagates ==
  /\ IndexFails /\ result.mode = "fts" /\ ~tx.fts_table
  /\ DOMAIN tx.rows # {}
  /\ result.raised /\ pc = "failed"

\* the rows in which the query occurs as a substring of one of the four
\* columns, case ignored
SubstringIds(query) ==
  {id \in DOMAIN tx.rows :
     \E col \in FTS_COLUMNS :
       Contains(Lower(tx.rows[id][col]), Lower(query))}

\* C25: the scan returns exactly the observations in which the query occurs
\* as a substring of title, summary, tags_text or raw, ordered by id
\* descending and windowed by limit and offset, every item without score.
C25_ScanIsSubstringMatch ==
  (result.op = "run_search" /\ result.mode = "like"
     /\ Strip(result.query) # <<>>)
  => result.items
       = FilterItems(
           SearchItems(tx,
             Window(IdsDescending(SubstringIds(Strip(result.query))),
                    result.limit, result.offset), FALSE),
           _normalize_required_tags(result.required))

\* the scan for "FOO" returned the two rows titled foo, the newer one first
C25_ScanFindsSubstring ==
  /\ result.op = "run_search" /\ result.mode = "like"
  /\ result.query = <<"F", "O", "O">>
  /\ result.required = <<>>
  /\ ResultIds = <<2, 1>>
  /\ \A k \in DOMAIN result.items : ~result.items[k].scored

(***************************************************************************)
(* Properties: edit, then search                                           *)
(***************************************************************************)

\* run_edit has just returned from changing the title of call.obs_id
TitleEdited ==
  /\ AfterEdit
  /\ call.obs_id \in DOMAIN call.before.rows
  /\ call.before.rows[call.obs_id].title # tx.rows[call.obs_id].title

\* the title before the edit and after it
OldTitle == call.before.rows[call.obs_id].title
NewTitle == tx.rows[call.obs_id].title

\* the old title shares no term with the new one and occurs in no other
\* column of the row
NoOverlap ==
  /\ Range(FtsTokens(OldTitle)) \cap Range(FtsTokens(NewTitle)) = {}
  /\ \A col \in FTS_COLUMNS \ {"title"} :
       ~Contains(Lower(tx.rows[call.obs_id][col]), Lower(OldTitle))

\* what run_search returns for a query on the store as it is now, the page
\* wide enough for every row
Searches(query, mode) ==
  {run_search(tx, query, Cardinality(IDS), 0, mode, FALSE, <<>>, ftsOrder) :
     ftsOrder \in Orderings(FtsIds(tx, Strip(query)))}

Returns(found, id) ==
  ~found.raised /\ \E k \in DOMAIN found.items : found.items[k].id = id

\* C26: after run_edit has changed the title of an observation from X to Y,
\* run_search for Y returns the observation and run_search for X does not,
\* in auto mode and in like mode.
C26_EditedTitleSearchable ==
  (TitleEdited /\ NoOverlap)
  => \A mode \in {"auto", "like"} :
       /\ \A found \in Searches(NewTitle, mode) : Returns(found, call.obs_id)
       /\ \A found \in Searches(OldTitle, mode) : ~Returns(found, call.obs_id)

\* the title of an observation was changed to foo and the search for "foo"
\* in auto mode, made on the index, returned it
C26_FoundThroughIndex ==
  /\ result.op = "run_search" /\ result.mode = "auto"
  /\ result.query = <<"f", "o", "o">>
  /\ call.prev = "other"
  /\ tx.fts_table
  /\ \E k \in DOMAIN result.items :
       /\ tx.rows[result.items[k].id].title = <<"f", "o", "o">>
       /\ result.items[k].scored

(***************************************************************************)
(* Properties: the timeline                                                *)
(***************************************************************************)

\* the timestamp of a stored row
Stamp(id) == tx.rows[id].timestamp

\* the result lists rows newest first, none twice
NewestFirst ==
  \A i, j \in DOMAIN ResultIds :
    i < j => (ResultIds[i] # ResultIds[j]
              /\ TextLeq(Stamp(ResultIds[j]), Stamp(ResultIds[i])))

\* the result is a page of limit rows at offset, cut from these rows
PageOf(ids) ==
  /\ Range(ResultIds) \subseteq ids
  /\ NewestFirst
  /\ Len(result.items)
       = (IF Cardinality(ids) <= result.offset THEN 0
          ELSE IF Cardinality(ids) - result.offset < result.limit
               THEN Cardinality(ids) - result.offset
               ELSE result.limit)

\* the rows whose timestamp is the anchor's instant or at most
\* window_minutes before or after it
AroundAnchor ==
  {id \in DOMAIN tx.rows :
     /\ Stamp(result.around_id.val).minute - result.window_minutes
          <= Stamp(id).minute
     /\ Stamp(id).minute
          <= Stamp(result.around_id.val).minute + result.window_minutes}

\* C27: with around_id given and present, run_timeline returns, up to limit
\* and offset and newest first, exactly the observations whose timestamp
\* lies within window_minutes of the anchor's, whatever start and end the
\* caller passed; with around_id absent from the store it fails with the
\* not-found error.
C27_AnchorWindow ==
  (result.op = "run_timeline" /\ result.around_id.kind = "int")
  => IF result.around_id.val \in DOMAIN tx.rows
     THEN ~result.raised /\ PageOf(AroundAnchor)
     ELSE result.raised /\ result.error = "not found"

\* the caller passed start and end at minute 1 and an anchor at minute 3:
\* the timeline holds the anchor
C27_AnchorOverridesBounds ==
  /\ result.op = "run_timeline" /\ result.around_id.kind = "int"
  /\ result.start = PyStr(IsoText(1)) /\ result.end = PyStr(IsoText(1))
  /\ result.window_minutes = 0
  /\ ~result.raised
  /\ Stamp(result.around_id.val) = IsoText(3)
  /\ ResultIds = <<result.around_id.val>>

\* the rows whose timestamp is neither below start nor above end
WithinBounds ==
  {id \in DOMAIN tx.rows :
     /\ result.start.kind = "none" \/ TextLeq(result.start.val, Stamp(id))
     /\ result.end.kind = "none" \/ TextLeq(Stamp(id), result.end.val)}

\* C28: without an anchor, run_timeline returns the observations with
\* start <= timestamp <= end, both bounds included and a bound that is
\* absent not applied, newest first and windowed by limit and offset; it
\* writes nothing.
C28_TimelineRange ==
  (result.op = "run_timeline" /\ result.around_id.kind = "none")
  => /\ ~result.raised
     /\ PageOf(WithinBounds)
     /\ Range(result.stmts) = {TABLE_SELECT}
     /\ tx = call.before /\ disk = call.before /\ ~in_transaction

\* start and end are both minute 2: of a row at minute 2 and one at minute 3
\* the timeline holds the first
C28_Witness ==
  /\ result.op = "run_timeline" /\ result.around_id.kind = "none"
  /\ result.start = PyStr(IsoText(2)) /\ result.end = PyStr(IsoText(2))
  /\ Cardinality(DOMAIN tx.rows) = 2
  /\ \E id \in DOMAIN tx.rows : Stamp(id) = IsoText(3)
  /\ Len(result.items) = 1
  /\ Stamp(ResultIds[1]) = IsoText(2)

(***************************************************************************)
(* Properties: edits and deletes that are refused                          *)
(***************************************************************************)

\* the call has changed neither the store nor the connection's view of it,
\* rows and index entries included, and holds no transaction
NothingChanged ==
  tx = call.before /\ disk = call.before /\ ~in_transaction

\* C29: run_edit fails with the not-found error when the id is absent and
\* with the invalid-request error when no editable field is given; in both
\* cases no row and no index entry is changed.
C29_RefusedEditChangesNothing ==
  (call.op = "run_edit" /\ call.outcome \in {"running", "ValueError"})
  => /\ call.obs_id \notin DOMAIN call.before.rows
        => /\ call.outcome = "ValueError" /\ result.error = "not found"
           /\ NothingChanged
     /\ (call.obs_id \in DOMAIN call.before.rows /\ call.updates = {})
        => /\ call.outcome = "ValueError" /\ result.error = "no changes"
           /\ NothingChanged

\* run_edit was called without fields on a row that exists and is indexed,
\* and was refused
C29_Witness ==
  /\ call.op = "run_edit" /\ call.outcome = "ValueError"
  /\ result.error = "no changes"
  /\ call.obs_id \in DOMAIN disk.rows \cap DOMAIN disk.docs
  /\ pc = "failed"

\* the rows run_delete has removed
Removed == DOMAIN call.before.rows \ DOMAIN tx.rows

\* C30: run_delete with dry_run true reports the number of given ids that
\* exist as matched and 0 as deleted and leaves table and index unchanged;
\* with dry_run false it removes exactly those rows, index entries
\* included, and reports deleted = matched; an empty id list is rejected
\* with an error and changes nothing.
C30_DeleteRemovesMatched ==
  call.op = "run_delete"
  => /\ call.outcome \in {"running", "returned", "ValueError"}
     /\ call.outcome = "ValueError" => NothingChanged
     /\ (result.op = "run_delete" /\ result.deleted = 0) => NothingChanged
     /\ (result.op = "run_delete" /\ result.deleted > 0)
        => /\ result.deleted = result.matched
           /\ Cardinality(Removed) = result.deleted
           /\ DOMAIN tx.rows \subseteq DOMAIN call.before.rows
           /\ \A id \in DOMAIN tx.rows : tx.rows[id] = call.before.rows[id]
           /\ DOMAIN tx.docs \cap Removed = {}

\* run_delete has removed an indexed row and its index entry and returned
C30_Witness ==
  /\ call.op = "run_delete" /\ call.outcome = "returned"
  /\ result.deleted = 1 /\ result.matched = 1
  /\ \E id \in Removed : id \in DOMAIN call.before.docs
  /\ DOMAIN disk.docs \cap Removed = {}

(***************************************************************************)
(* Properties: the ids of observations                                     *)
(***************************************************************************)

\* processes that add, edit and delete observations one after the other, on
\* a new store or on one an earlier release wrote; a process may exit or be
\* killed, and the next one brings the store up to date again
NextIds ==
  \/ phase = "new" /\ ensure_schema
  \/ phase = "schema" /\ ensure_fts
  \/ SchemaBody
  \/ add_observation
  \/ add_observation_commit
  \/ AfterAdd /\ run_edit
  \/ run_edit_commit
  \/ AfterAdd /\ run_delete
  \/ run_delete_commit
  \/ Exit
  \/ Crash

SpecIds == InitQuery /\ [][NextIds]_vars

\* the step in which add_observation commits and returns its id
AddReturns ==
  /\ pc = "ao_commit"
  /\ call'.op = "add_observation"
  /\ call'.outcome = "returned"

\* the step in which a deletion is committed
DeleteCommits == pc \in {"rd_commit", "rc_commit"} /\ disk' # disk

\* C31: ids are assigned once and only grow.  The committed sequence value
\* of the observations table is at least every id the store holds and never
\* decreases; the id an add_observation returns is the sequence value it
\* commits, which is above the value committed before, hence above every id
\* returned earlier, whether or not those rows still exist.  No step other
\* than a committed deletion takes an id out of the store: edit, migration
\* and rebuild leave every observation under its id.
C31_IdsOnlyGrow ==
  [][/\ disk'.seq >= disk.seq
     /\ \A id \in DOMAIN disk'.rows : id <= disk'.seq
     /\ AddReturns =>
          /\ call'.obs_id = disk'.seq
          /\ call'.obs_id > disk.seq
          /\ call'.obs_id \in DOMAIN disk'.rows \ DOMAIN disk.rows
     /\ ~DeleteCommits => DOMAIN disk.rows \subseteq DOMAIN disk'.rows]_vars

\* an add_observation has returned id 2 on a store that was new, after the
\* observation with id 1, the highest then, was deleted
C31_Witness ==
  /\ store0 = EmptyStore
  /\ call.op = "add_observation"
  /\ call.outcome = "returned"
  /\ call.obs_id = 2
  /\ DOMAIN disk.rows = {2}

(***************************************************************************)
(* operations.py: run_get                                                  *)
(***************************************************************************)

\* the number of ? parameters one statement may have: 32766 in a default
\* build of SQLite, 999 before 3.32, 250000 in some distributions; the
\* model scales it to 3
SQLITE_MAX_VARIABLE_NUMBER == 3

\* ids arguments: lists of up to SQLITE_MAX_VARIABLE_NUMBER + 1 ids, with
\* repetitions, in any order
ID_LISTS ==
  UNION {[1..n -> IDS] : n \in 0..(SQLITE_MAX_VARIABLE_NUMBER + 1)}

\* the rows WHERE id IN (?, ..., ?) selects
GetIds(img, ids) == Range(ids) \cap DOMAIN img.rows

\* a run_get that reads the rows one id of the list after the other
run_get_per_id(img, ids, order) ==
  IF Len(ids) > SQLITE_MAX_VARIABLE_NUMBER
  THEN [raised |-> TRUE, items |-> <<>>]
  ELSE [raised |-> FALSE,
        items |-> SearchItems(img,
                    SelectSeq(ids, LAMBDA id : id \in DOMAIN img.rows),
                    FALSE)]

\* operations.run_get, lines 260-267: one SELECT with a parameter for each
\* entry of ids; order is the order its ORDER BY timestamp DESC gave.  More
\* parameters than SQLITE_MAX_VARIABLE_NUMBER raise OperationalError ("too
\* many SQL variables").
run_get(img, ids, order) ==
  IF Len(ids) > SQLITE_MAX_VARIABLE_NUMBER
  THEN [raised |-> TRUE, items |-> <<>>]
  ELSE [raised |-> FALSE, items |-> SearchItems(img, order, FALSE)]

\* operations.run_get called on the idle connection
get ==
  /\ pc = "idle"
  /\ phase = "ready"
  /\ \E ids \in ID_LISTS :
       \E order \in TimestampOrderings(tx, GetIds(tx, ids)) :
         LET got == run_get(tx, ids, order)
         IN /\ result' = [NoResult EXCEPT !.op = "run_get", !.ids = ids,
                            !.order = order, !.raised = got.raised,
                            !.items = got.items,
                            !.error = IF got.raised THEN "too many SQL variables"
                                      ELSE "none",
                            !.stmts = <<TABLE_SELECT>>]
            /\ pc' = IF got.raised THEN "failed" ELSE "idle"
            /\ call' = [Entered("run_get") EXCEPT
                          !.outcome = IF got.raised THEN "OperationalError"
                                      ELSE "returned"]
            /\ last' = IF got.raised THEN last ELSE "other"
  /\ UNCHANGED <<disk, tx, in_transaction, fts5, parked, canon, phase, ret, version, store0>>

\* one process that adds observations with timestamps of its choice to a new
\* store and then reads some by id
NextGet ==
  \/ phase = "new" /\ ensure_schema
  \/ phase = "schema" /\ ensure_fts
  \/ SchemaBody
  \/ add_observation_at
  \/ add_observation_commit
  \/ result = NoResult /\ get

SpecGet == InitTimeline /\ [][NextGet]_vars

(***************************************************************************)
(* Properties: reading observations by id                                  *)
(***************************************************************************)

\* the result holds each stored observation named in ids once, no other,
\* newest first
EachOnce ==
  /\ ~result.raised
  /\ Range(ResultIds) = Range(result.ids) \cap DOMAIN tx.rows
  /\ NewestFirst

\* C32 as stated: run_get returns each existing observation whose id is in
\* ids exactly once, however often the id is repeated, omits the ids that do
\* not exist and orders the result by timestamp descending whatever the
\* order of ids.
C32_EachExistingOnce == result.op = "run_get" => EachOnce

\* C32, for lists the statement can carry: with at most
\* SQLITE_MAX_VARIABLE_NUMBER entries in ids the result holds each existing
\* observation once, newest first; with more entries run_get raises
\* OperationalError and returns nothing.
C32_EachExistingOnceWithinLimit ==
  result.op = "run_get"
  => IF Len(result.ids) <= SQLITE_MAX_VARIABLE_NUMBER
     THEN EachOnce
     ELSE result.raised /\ result.items = <<>>

\* ids names the older observation twice, then the newer one: the result is
\* the newer, then the older
C32_Witness ==
  /\ result.op = "run_get"
  /\ result.ids = <<1, 1, 2>>
  /\ DOMAIN tx.rows = {1, 2}
  /\ Stamp(1) = IsoText(1) /\ Stamp(2) = IsoText(3)
  /\ ResultIds = <<2, 1>>

(***************************************************************************)
(* Properties: what an edit leaves alone                                   *)
(***************************************************************************)

\* the columns of observations
COLUMNS ==
  {"timestamp", "project", "kind", "title", "summary", "tags", "tags_text",
   "raw", "session_id"}

\* a run_edit has executed its UPDATE, or has committed it and returned
EditWritten ==
  /\ call.op = "run_edit"
  /\ call.obs_id # 0
  /\ call.outcome \in {"running", "returned"}

\* C33: run_edit changes only what was asked.  While the UPDATE is not yet
\* committed, every column of the edited observation that is not a key of
\* updates has the value it had before the call; tags and tags_text are keys
\* only when tags was given.  Then and after the commit every other
\* observation is as it was and the store holds the same ids.
C33_EditChangesOnlyAsked ==
  EditWritten
  => /\ DOMAIN tx.rows = DOMAIN call.before.rows
     /\ \A id \in DOMAIN tx.rows \ {call.obs_id} :
          tx.rows[id] = call.before.rows[id]
     /\ call.outcome = "running"
        => /\ ("tags" \in call.updates) = (call.tags.kind # "none")
           /\ ("tags_text" \in call.updates) = (call.tags.kind # "none")
           /\ \A column \in COLUMNS \ call.updates :
                tx.rows[call.obs_id][column]
                  = call.before.rows[call.obs_id][column]
     /\ call.outcome = "returned" => disk = tx

\* of two observations whose tags, normalized again, would change, the title
\* of the second is being edited: its tags are those stored before
C33_Witness ==
  /\ EditWritten
  /\ call.outcome = "running"
  /\ call.updates = {"title"}
  /\ DOMAIN tx.rows = {1, 2}
  /\ call.obs_id = 2
  /\ tx.rows[2].title # call.before.rows[2].title
  /\ tx.rows[2].tags = call.before.rows[2].tags
  /\ tags_to_json(normalize_tags_list(PyStr(tx.rows[2].tags)))
       # tx.rows[2].tags

(***************************************************************************)
(* Properties: clean                                                       *)
(***************************************************************************)

\* one process that adds at most one observation and then cleans, on a new
\* store or on one an earlier release wrote
NextClean ==
  \/ phase = "new" /\ ensure_schema
  \/ phase = "schema" /\ ensure_fts
  \/ SchemaBody
  \/ FirstCall /\ add_observation
  \/ add_observation_commit
  \/ (FirstCall \/ AfterAdd) /\ run_clean
  \/ run_clean_commit

SpecClean == InitQuery /\ [][NextClean]_vars

\* the rows are those the WHERE clause of some call with a scope selects:
\* a tag that gives a filter, or delete_all
ScopedRows(ids) ==
  \E tag \in {NONE} \cup {PyStr(t) : t \in CLEAN_TAGS}, delete_all \in BOOLEAN :
    /\ ~(CleanUnfiltered(tag) /\ ~delete_all)
    /\ ids = CleanMatching(call.before, tag)

\* C34: run_clean never deletes without an explicit scope.  A call without
\* filter and without delete_all raises and changes nothing; a dry run
\* reports matched and deletes nothing; any other call removes exactly the
\* rows its filters select, index entries included, and reports
\* deleted = matched.  No call of run_clean ends in another way.
C34_CleanDeletesScoped ==
  call.op = "run_clean"
  => /\ call.outcome \in {"running", "returned", "ValueError"}
     /\ call.outcome = "ValueError" => NothingChanged
     /\ (result.op = "run_clean" /\ result.deleted = 0) => NothingChanged
     /\ (result.op = "run_clean" /\ result.deleted > 0)
        => /\ result.deleted = result.matched
           /\ Cardinality(Removed) = result.deleted
           /\ ScopedRows(Removed)
           /\ DOMAIN tx.rows \subseteq DOMAIN call.before.rows
           /\ \A id \in DOMAIN tx.rows : tx.rows[id] = call.before.rows[id]
           /\ DOMAIN tx.docs \cap Removed = {}

\* of two observations run_clean has removed the one its tag filter selects
\* and returned
C34_Witness ==
  /\ call.op = "run_clean" /\ call.outcome = "returned"
  /\ result.deleted = 1 /\ result.matched = 1
  /\ DOMAIN call.before.rows = {1, 2}
  /\ DOMAIN disk.rows = {1}

(***************************************************************************)
(* feedback.py: parse_feedback_intent                                      *)
(*                                                                         *)
(* The patterns are those of the source that are written in ASCII; the     *)
(* texts of the model hold no other character.                             *)
(***************************************************************************)

\* delete_patterns, lines 35-38: ^delete, ^remove, ^drop
DELETE_PREFIXES ==
  { <<"d", "e", "l", "e", "t", "e">>, <<"r", "e", "m", "o", "v", "e">>, <<"d", "r", "o", "p">> }

\* correct_patterns, lines 44-54: ^correct:, ^update:, ^should be:, ^actually:
CORRECT_PREFIXES ==
  { <<"c", "o", "r", "r", "e", "c", "t", ":">>, <<"u", "p", "d", "a", "t", "e", ":">>,
    <<"s", "h", "o", "u", "l", "d", " ", "b", "e", ":">>,
    <<"a", "c", "t", "u", "a", "l", "l", "y", ":">> }

\* supplement_patterns, lines 62-72: ^supplement:, ^add:, ^note:, ^also:,
\* ^additionally:
SUPPLEMENT_PREFIXES ==
  { <<"s", "u", "p", "p", "l", "e", "m", "e", "n", "t", ":">>,
    <<"a", "d", "d", ":">>, <<"n", "o", "t", "e", ":">>, <<"a", "l", "s", "o", ":">>,
    <<"a", "d", "d", "i", "t", "i", "o", "n", "a", "l", "l", "y", ":">> }

\* a FeedbackIntent
Intent(action, new_title, new_summary, supplement_text) ==
  [action |-> action, new_title |-> new_title, new_summary |-> new_summary,
   supplement_text |-> supplement_text]

\* text[match.end():].strip() for the prefix that matched
AfterPrefix(text, prefixes) ==
  LET p == CHOOSE x \in prefixes : StartsWith(Lower(text), x)
  IN Strip(SubSeq(text, Len(p) + 1, Len(text)))

\* _parse_correction_content, lines 88-114, for a content without the word
\* summary: "title: X" gives the title X, any other content is the summary
TITLE_LABEL == <<"t", "i", "t", "l", "e", ":">>

_parse_correction_content(content) ==
  IF /\ StartsWith(Lower(content), TITLE_LABEL)
     /\ Strip(SubSeq(content, Len(TITLE_LABEL) + 1, Len(content))) # <<>>
  THEN Intent("correct",
              PyStr(Strip(SubSeq(content, Len(TITLE_LABEL) + 1,
                                 Len(content)))),
              NONE, NONE)
  ELSE Intent("correct", NONE, PyStr(content), NONE)

\* re.search(r"instead of|not\s+\w+|is\s+\w+\s+not", text), line 80: every
\* match of the third alternative in a text of the model also holds "not"
\* followed by a space and a word, or "instead of"
InfersCorrection(text) ==
  \/ Contains(text, <<"i", "n", "s", "t", "e", "a", "d", " ", "o", "f">>)
  \/ \E i \in 1..(Len(text) - 4) :
       /\ SubSeq(text, i, i + 3) = <<"n", "o", "t", " ">>
       /\ IsAlnum(LStrip(SubSeq(text, i + 4, Len(text)) \o <<" ">>)[1])

\* feedback.parse_feedback_intent, lines 22-85
parse_feedback_intent(feedback_text) ==
  LET text == Strip(feedback_text)
  IN IF \E p \in DELETE_PREFIXES : StartsWith(Lower(text), p)
     THEN Intent("delete", NONE, NONE, NONE)
     ELSE IF \E p \in CORRECT_PREFIXES : StartsWith(Lower(text), p)
     THEN _parse_correction_content(AfterPrefix(text, CORRECT_PREFIXES))
     ELSE IF \E p \in SUPPLEMENT_PREFIXES : StartsWith(Lower(text), p)
     THEN Intent("supplement", NONE, NONE,
                 PyStr(AfterPrefix(text, SUPPLEMENT_PREFIXES)))
     ELSE IF InfersCorrection(text)
     THEN _parse_correction_content(text)
     ELSE Intent("supplement", NONE, NONE, PyStr(text))

(***************************************************************************)
(* feedback.py and review_feedback.py: applying feedback                   *)
(***************************************************************************)

\* "\n\n[..] ", lines 177-179; "+" stands for the two characters of the
\* marker
SUPPLEMENT_MARK == <<"\n", "\n", "[", "+", "]", " ">>

\* run_edit as apply_feedback calls it: title and summary are None or a str,
\* every other argument is None (operations.py 316-344)
FeedbackEdit(img, id, title, summary) ==
  LET row == img.rows[id]
      titled == IF title.kind = "none" THEN row
                ELSE [row EXCEPT !.title = normalize_text(title.val)]
      edited == IF summary.kind = "none" THEN titled
                ELSE [titled EXCEPT !.summary = normalize_text(summary.val)]
  IN UpdateRow(img, id, edited)

\* feedback.record_feedback: the INSERT fails when the table does not exist
HasFeedbackLog(img) == "feedback_log" \in img.tables

record_feedback(img, observation_id, action_type) ==
  [img EXCEPT !.feedback_log =
     Append(@, [target_observation_id |-> observation_id,
                action_type |-> action_type])]

\* lines 143-205 of apply_feedback: what the intent does to the store
\* before the feedback is recorded
Applied(img, observation_id, intent) ==
  LET observation == img.rows[observation_id]
  IN CASE intent.action = "delete" -> DeleteRows(img, {observation_id})
       [] intent.action = "correct" ->
            FeedbackEdit(img, observation_id,
                         IF intent.new_title.kind = "none"
                            /\ intent.new_summary.kind # "none"
                         THEN PyStr(observation.title)
                         ELSE intent.new_title,
                         intent.new_summary)
       [] OTHER ->
            IF intent.supplement_text.val = <<>> THEN img
            ELSE FeedbackEdit(img, observation_id, NONE,
                   PyStr(IF observation.summary # <<>>
                         THEN observation.summary \o SUPPLEMENT_MARK
                              \o intent.supplement_text.val
                         ELSE Tail(Tail(SUPPLEMENT_MARK))
                              \o intent.supplement_text.val))

\* an apply_feedback that applies the intent whatever auto_apply is
ApplyFeedback_always(img, observation_id, feedback_text, auto_apply) ==
  IF observation_id \notin DOMAIN img.rows
  THEN [img |-> img, error |-> "not found"]
  ELSE LET intent == parse_feedback_intent(feedback_text)
           after == Applied(img, observation_id, intent)
       IN IF HasFeedbackLog(after)
          THEN [img |-> record_feedback(after, observation_id, intent.action),
                error |-> "none"]
          ELSE [img |-> after, error |-> "no such table: feedback_log"]

\* feedback.apply_feedback, lines 118-209, on a store whose rows are all
\* indexed: the store it leaves, every statement committed, and the
\* exception it raised.  run_edit and run_delete commit before
\* record_feedback runs, so their effect stays when the INSERT fails.
ApplyFeedback(img, observation_id, feedback_text, auto_apply) ==
  IF observation_id \notin DOMAIN img.rows
  THEN [img |-> img, error |-> "not found"]
  ELSE LET intent == parse_feedback_intent(feedback_text)
           after == IF auto_apply THEN Applied(img, observation_id, intent)
                    ELSE img
       IN IF HasFeedbackLog(after)
          THEN [img |-> record_feedback(after, observation_id, intent.action),
                error |-> "none"]
          ELSE [img |-> after, error |-> "no such table: feedback_log"]

\* an item of the list: a dict whose observation_id is an int, a str holding
\* an int, a bool or missing, or something that is not a dict
Item(kind, id_kind, id, feedback) ==
  [kind |-> kind, id_kind |-> id_kind, id |-> id, feedback |-> feedback]

\* review_feedback._extract_item and _to_int: the message of the ValueError,
\* "none" when the item gives an id and a text
ExtractError(raw) ==
  IF raw.kind # "dict" THEN "item_must_be_object"
  ELSE IF raw.id_kind \notin {"int", "str"} THEN "invalid_observation_id"
  ELSE IF Strip(raw.feedback) = <<>> THEN "feedback_required"
  ELSE "none"

\* review_feedback.apply_review_feedback, lines 43-61: the loop over the
\* items from item k on; every exception of an item is caught and counted
RECURSIVE ApplyItems(_, _, _, _)
ApplyItems(acc, items, auto_apply, k) ==
  IF k > Len(items) THEN acc
  ELSE LET raw == items[k]
           out == IF ExtractError(raw) # "none"
                  THEN [img |-> acc.img, error |-> ExtractError(raw)]
                  ELSE ApplyFeedback(acc.img, raw.id, Strip(raw.feedback),
                                     auto_apply)
       IN ApplyItems([img |-> out.img,
                      applied |-> acc.applied
                                    + (IF out.error = "none" THEN 1 ELSE 0),
                      failed |-> acc.failed
                                   + (IF out.error = "none" THEN 0 ELSE 1)],
                     items, auto_apply, k + 1)

\* feedback texts: "delete this", "correct: title: bar", "update: new",
\* "note: more", "ok", "is not foo"
FEEDBACK_TEXTS ==
  { <<"d", "e", "l", "e", "t", "e", " ", "t", "h", "i", "s">>,
    <<"c", "o", "r", "r", "e", "c", "t", ":", " ", "t", "i", "t", "l", "e", ":", " ", "b", "a", "r">>,
    <<"u", "p", "d", "a", "t", "e", ":", " ", "n", "e", "w">>,
    <<"n", "o", "t", "e", ":", " ", "m", "o", "r", "e">>,
    <<"o", "k">>,
    <<"i", "s", " ", "n", "o", "t", " ", "f", "o", "o">> }

\* items: a deletion, a new title and a note for observation 1, a deletion
\* of observation 2 named by a str, and the items _extract_item refuses
ITEMS ==
  { Item("dict", "int", 1, <<"d", "e", "l", "e", "t", "e", " ", "t", "h", "i", "s">>),
    Item("dict", "int", 1, <<"c", "o", "r", "r", "e", "c", "t", ":", " ", "t", "i", "t", "l", "e", ":", " ", "b", "a", "r">>),
    Item("dict", "int", 1, <<"n", "o", "t", "e", ":", " ", "m", "o", "r", "e">>),
    Item("dict", "str", 2, <<"r", "e", "m", "o", "v", "e">>),
    Item("dict", "int", 1, <<" ">>),
    Item("other", "none", 0, <<>>) }

\* items a list holds at most
MaxItems == 2

ITEM_LISTS == UNION {[1..n -> ITEMS] : n \in 0..MaxItems}

\* review_feedback.apply_review_feedback called on the idle connection
apply_review_feedback ==
  /\ pc = "idle"
  /\ phase = "ready"
  /\ ~in_transaction
  /\ \E items \in ITEM_LISTS, auto_apply \in BOOLEAN :
       LET out == ApplyItems([img |-> tx, applied |-> 0, failed |-> 0],
                             items, auto_apply, 1)
       IN /\ tx' = out.img
          /\ disk' = out.img
          /\ result' = [NoResult EXCEPT
                          !.op = "apply_review_feedback",
                          !.feedback = items,
                          !.report = [total |-> Len(items),
                                      applied |-> out.applied,
                                      failed |-> out.failed,
                                      dry_run |-> ~auto_apply]]
  /\ call' = [Entered("apply_review_feedback") EXCEPT !.outcome = "returned"]
  /\ last' = "other"
  /\ UNCHANGED <<in_transaction, fts5, parked, canon, phase, ret, version, store0, pc>>

\* feedback.apply_feedback called on the idle connection
apply_feedback ==
  /\ pc = "idle"
  /\ phase = "ready"
  /\ ~in_transaction
  /\ \E observation_id \in IDS, feedback_text \in FEEDBACK_TEXTS,
        auto_apply \in BOOLEAN :
       LET out == ApplyFeedback(tx, observation_id, feedback_text, auto_apply)
       IN /\ tx' = out.img
          /\ disk' = out.img
          /\ result' = [NoResult EXCEPT
                          !.op = "apply_feedback",
                          !.raised = (out.error # "none"),
                          !.error = out.error,
                          !.report = [NoResult.report EXCEPT
                                        !.dry_run = ~auto_apply]]
          /\ pc' = IF out.error = "none" THEN "idle" ELSE "failed"
          /\ call' = [Entered("apply_feedback") EXCEPT
                        !.obs_id = observation_id,
                        !.outcome = CASE out.error = "none" -> "returned"
                                      [] out.error = "not found" -> "ValueError"
                                      [] OTHER -> "OperationalError"]
          /\ last' = IF out.error = "none" THEN "other" ELSE last
  /\ UNCHANGED <<in_transaction, fts5, parked, canon, phase, ret, version, store0>>

\* a store with the table feedback_log: no statement of database.py creates
\* the table, a store has it when it was created on it by other means
WithFeedbackLog == [EmptyStore EXCEPT !.tables = {"feedback_log"}]

\* one process that adds observations to a new store, with or without the
\* table feedback_log, and then makes one call that applies feedback
InitFeedback ==
  /\ disk \in {EmptyStore, WithFeedbackLog}
  /\ parked = NoProcess
  /\ canon = NoCanon
  /\ tx = disk
  /\ store0 = disk
  /\ in_transaction = FALSE
  /\ fts5 = TRUE   \* the build has FTS5
  /\ phase = "new"
  /\ pc = "idle"
  /\ ret = "idle"
  /\ version = 0
  /\ call = NoCall
  /\ last = "none"
  /\ result = NoResult

NextFeedback ==
  \/ phase = "new" /\ ensure_schema
  \/ phase = "schema" /\ ensure_fts
  \/ SchemaBody
  \/ (FirstCall \/ AfterAdd) /\ add_observation
  \/ add_observation_commit
  \/ (FirstCall \/ AfterAdd) /\ apply_review_feedback
  \/ (FirstCall \/ AfterAdd) /\ apply_feedback

SpecFeedback == InitFeedback /\ [][NextFeedback]_vars

(***************************************************************************)
(* Properties: feedback                                                    *)
(***************************************************************************)

\* a call that applies feedback has ended, by returning or by raising
FeedbackDone == result.op \in {"apply_review_feedback", "apply_feedback"}

\* C35: a preview does not mutate observations, and the counts add up.
\* After apply_review_feedback or apply_feedback with auto_apply false the
\* observations, committed and as the connection sees them, are those the
\* call started on, whatever the feedback texts parse to.  After every
\* apply_review_feedback applied + failed = total, total is the number of
\* items, and applied is the number of items whose feedback was recorded:
\* an item that failed did not stop the ones after it.
C35_PreviewLeavesObservations ==
  FeedbackDone
  => /\ result.report.dry_run
        => /\ tx.rows = call.before.rows
           /\ disk.rows = call.before.rows
           /\ tx.docs = call.before.docs
     /\ result.op = "apply_review_feedback"
        => /\ result.report.applied + result.report.failed
                = result.report.total
           /\ result.report.total = Len(result.feedback)
           /\ result.report.applied
                = Len(disk.feedback_log) - Len(call.before.feedback_log)

\* a preview of two items: the first is refused, the second, which parses
\* to a deletion of an observation that exists, is counted as applied and
\* recorded, and the observation is still there
C35_Witness ==
  /\ result.op = "apply_review_feedback"
  /\ result.report.dry_run
  /\ result.report = [total |-> 2, applied |-> 1, failed |-> 1,
                      dry_run |-> TRUE]
  /\ ExtractError(result.feedback[1]) # "none"
  /\ parse_feedback_intent(result.feedback[2].feedback).action = "delete"
  /\ result.feedback[2].id \in DOMAIN disk.rows
  /\ Len(disk.feedback_log) = 1

(***************************************************************************)
(* sessions.py: start_session and end_session                              *)
(***************************************************************************)

\* sessions ever started on one store
MaxSessions == 2

\* what utc_now() returns when a session is started or ended
CLOCK == {IsoText(1), IsoText(2)}

\* summary arguments of end_session: None, "" and "done"
SUMMARIES == {NONE, PyStr(<<>>), PyStr(<<"d", "o", "n", "e">>)}

\* the row start_session inserts (lines 65-70): end_time NULL, status
\* 'active'; project, working_dir and agent_type are not modelled
StartedSession(now) ==
  [start_time |-> now, end_time |-> NoBound, summary |-> <<>>,
   status |-> "active"]

\* an end_session that reopens a session that was completed
EndedSession_toggle(session, now, summary) ==
  IF session.status = "completed"
  THEN [session EXCEPT !.end_time = NoBound, !.status = "active"]
  ELSE [session EXCEPT !.end_time = PyStr(now), !.status = "completed"]

\* the row after the UPDATE of end_session (lines 78-93): the summary is
\* set only when the argument is a non-empty str
EndedSession(session, now, summary) ==
  IF summary.kind # "none" /\ summary.val # <<>>
  THEN [session EXCEPT !.end_time = PyStr(now), !.status = "completed",
                       !.summary = summary.val]
  ELSE [session EXCEPT !.end_time = PyStr(now), !.status = "completed"]

\* sessions.start_session, lines 65-71: the INSERT
start_session ==
  /\ pc = "idle"
  /\ phase = "ready"
  /\ tx.session_seq < MaxSessions
  /\ \E now \in CLOCK :
       ExecDml([tx EXCEPT
                  !.sessions = (tx.session_seq + 1 :> StartedSession(now)) @@ @,
                  !.session_seq = @ + 1])
  /\ call' = [Entered("start_session") EXCEPT
                !.stmts = <<"INSERT sessions">>,
                !.obs_id = tx.session_seq + 1]
  /\ pc' = "start_commit"
  /\ result' = NoResult
  /\ UNCHANGED <<fts5, parked, canon, phase, ret, version, last, store0>>

\* sessions.start_session, lines 72-73: conn.commit() and return
start_session_commit ==
  /\ pc = "start_commit"
  /\ Commit
  /\ Returned("start_session")
  /\ UNCHANGED <<fts5, parked, canon, phase, ret, version, result, store0>>

\* sessions.end_session, lines 78-93: the UPDATE, which changes no row when
\* no session has the id
end_session ==
  /\ pc = "idle"
  /\ phase = "ready"
  /\ \E session_id \in 1..(MaxSessions + 1), now \in CLOCK,
        summary \in SUMMARIES :
       /\ ExecDml(IF session_id \in DOMAIN tx.sessions
                  THEN [tx EXCEPT !.sessions[session_id] =
                          EndedSession(@, now, summary)]
                  ELSE tx)
       /\ call' = [Entered("end_session") EXCEPT
                     !.stmts = <<"UPDATE sessions">>,
                     !.obs_id = session_id]
  /\ pc' = "end_commit"
  /\ result' = NoResult
  /\ UNCHANGED <<fts5, parked, canon, phase, ret, version, last, store0>>

\* sessions.end_session, line 94: conn.commit()
end_session_commit ==
  /\ pc = "end_commit"
  /\ Commit
  /\ Returned("end_session")
  /\ UNCHANGED <<fts5, parked, canon, phase, ret, version, result, store0>>

\* processes that start and end sessions on a new store; a process may exit
\* or be killed
NextSessions ==
  \/ phase = "new" /\ ensure_schema
  \/ phase = "schema" /\ ensure_fts
  \/ SchemaBody
  \/ start_session \/ start_session_commit
  \/ end_session \/ end_session_commit
  \/ Exit
  \/ Crash

SpecSessions == InitTimeline /\ [][NextSessions]_vars

(***************************************************************************)
(* Properties: sessions                                                    *)
(***************************************************************************)

\* a session is completed and has an end_time, or is active and has none
WellFormed(session) ==
  /\ session.status \in {"active", "completed"}
  /\ (session.end_time.kind # "none") = (session.status = "completed")

\* C36: the session lifecycle is one-way.  The session start_session
\* returns is active and has no end_time; the session end_session was
\* called on is completed and has an end_time when the call returns; on
\* every step a committed session that is completed stays completed; and
\* every session, committed or in the open transaction, has an end_time
\* exactly when it is completed.
C36_SessionLifecycleOneWay ==
  [][/\ \A id \in DOMAIN disk.sessions :
          disk.sessions[id].status = "completed"
          => /\ id \in DOMAIN disk'.sessions
             /\ disk'.sessions[id].status = "completed"
     /\ \A id \in DOMAIN disk'.sessions : WellFormed(disk'.sessions[id])
     /\ \A id \in DOMAIN tx'.sessions : WellFormed(tx'.sessions[id])
     /\ (pc = "start_commit" /\ call'.outcome = "returned")
        => /\ call'.obs_id \in DOMAIN disk'.sessions \ DOMAIN disk.sessions
           /\ disk'.sessions[call'.obs_id].status = "active"
           /\ disk'.sessions[call'.obs_id].end_time = NoBound
     /\ (pc = "end_commit" /\ call'.outcome = "returned"
         /\ call'.obs_id \in DOMAIN disk.sessions)
        => /\ disk'.sessions[call'.obs_id].status = "completed"
           /\ disk'.sessions[call'.obs_id].end_time.kind # "none"]_vars

\* end_session has returned from its second call on a session, this time
\* at a later minute: the session is completed, with the later end_time,
\* and another session is still active
C36_Witness ==
  /\ call.op = "end_session" /\ call.outcome = "returned"
  /\ call.obs_id = 1
  /\ 1 \in DOMAIN call.before.sessions
  /\ DOMAIN disk.sessions = {1, 2}
  /\ call.before.sessions[1].status = "completed"
  /\ call.before.sessions[1].end_time = PyStr(IsoText(1))
  /\ disk.sessions[1].status = "completed"
  /\ disk.sessions[1].end_time = PyStr(IsoText(2))
  /\ disk.sessions[2].status = "active"

(***************************************************************************)
(* operations.py: pages of run_list, run_search and run_timeline           *)
(***************************************************************************)

\* --limit arguments: argparse takes any int (cli.py 98, 109, 137)
LIMIT_ARGS == {-1, 0, 1, 2}

\* the pages a client reads one after the other
MaxPages == MaxId + 1

\* a client reads the observations page by page: run_list(limit, 0),
\* run_list(limit, limit), run_list(limit, 2 * limit), ...
list_page ==
  /\ pc = "idle"
  /\ phase = "ready"
  /\ \E limit \in LIMIT_ARGS, order \in TimestampOrderings(tx, DOMAIN tx.rows) :
       /\ IF result.pages # <<>>
          THEN limit = result.limit /\ Len(result.pages) < MaxPages
          ELSE result = NoResult
       /\ LET offset == Len(result.pages) * limit
              items == run_list(tx, limit, offset, <<>>, order)
          IN result' = [NoResult EXCEPT
                          !.op = "run_list", !.limit = limit,
                          !.offset = offset, !.order = order,
                          !.items = items,
                          !.pages = Append(result.pages,
                                      [k \in DOMAIN items |-> items[k].id]),
                          !.stmts = <<TABLE_SELECT>>]
  /\ call' = [Entered("run_list") EXCEPT !.outcome = "returned"]
  /\ last' = "other"
  /\ UNCHANGED <<disk, tx, in_transaction, fts5, parked, canon, phase, ret, version, store0, pc>>

\* operations.run_search called for the first page of the rows that hold
\* "foo"
search_page ==
  /\ pc = "idle"
  /\ phase = "ready"
  /\ \E mode \in MODES, limit \in LIMIT_ARGS :
       \E ftsOrder \in Orderings(FtsIds(tx, <<"f", "o", "o">>)) :
         LET found == run_search(tx, <<"f", "o", "o">>, limit, 0, mode, FALSE, <<>>,
                                 ftsOrder)
         IN /\ result' = [NoResult EXCEPT !.op = "run_search",
                            !.query = <<"f", "o", "o">>, !.mode = mode,
                            !.limit = limit, !.raised = found.raised,
                            !.items = found.items, !.order = ftsOrder,
                            !.stmts = found.stmts]
            /\ pc' = IF found.raised THEN "failed" ELSE "idle"
            /\ call' = [Entered("run_search") EXCEPT
                          !.outcome = IF found.raised THEN "NameError"
                                      ELSE "returned"]
            /\ last' = IF found.raised THEN last ELSE "other"
  /\ UNCHANGED <<disk, tx, in_transaction, fts5, parked, canon, phase, ret, version, store0>>

\* operations.run_timeline called without bounds and without anchor for the
\* first page
timeline_page ==
  /\ pc = "idle"
  /\ phase = "ready"
  /\ \E limit \in LIMIT_ARGS,
        order \in TimestampOrderings(tx, TimelineIds(tx, NoBound, NoBound)) :
       result' = [NoResult EXCEPT
                    !.op = "run_timeline", !.limit = limit, !.order = order,
                    !.items = SearchItems(tx, Window(order, limit, 0), FALSE),
                    !.stmts = <<TABLE_SELECT>>]
  /\ call' = [Entered("run_timeline") EXCEPT !.outcome = "returned"]
  /\ last' = "other"
  /\ UNCHANGED <<disk, tx, in_transaction, fts5, parked, canon, phase, ret, version, store0, pc>>

\* one process that adds observations with timestamps of its choice to a new
\* store and then reads pages of them
NextPages ==
  \/ phase = "new" /\ ensure_schema
  \/ phase = "schema" /\ ensure_fts
  \/ SchemaBody
  \/ result = NoResult /\ add_observation_at
  \/ add_observation_commit
  \/ list_page
  \/ result = NoResult /\ search_page
  \/ result = NoResult /\ timeline_page

SpecPages == InitTimeline /\ [][NextPages]_vars

(***************************************************************************)
(* Properties: pages                                                       *)
(***************************************************************************)

PAGED == {"run_list", "run_search", "run_timeline"}

RECURSIVE Concat(_)
Concat(pages) ==
  IF pages = <<>> THEN <<>> ELSE Head(pages) \o Concat(Tail(pages))

\* no two observations of the store have the same timestamp
DistinctTimestamps ==
  \A i, j \in DOMAIN tx.rows : i # j => Stamp(i) # Stamp(j)

\* all observations, newest first
AllNewestFirst ==
  CHOOSE order \in TimestampOrderings(tx, DOMAIN tx.rows) : TRUE

\* the pages read so far hold no observation twice, and are together the
\* first observations of the list of all observations
DisjointPrefix ==
  LET read == Concat(result.pages)
  IN /\ \A i, j \in DOMAIN read : i # j => read[i] # read[j]
     /\ Len(read) <= Len(AllNewestFirst)
     /\ read = SubSeq(AllNewestFirst, 1, Len(read))

\* C37 as stated: run_list, run_search and run_timeline never return more
\* than limit items, and on a store with pairwise distinct timestamps the
\* pages of run_list are pairwise disjoint and together the first
\* observations of the list of all observations, newest first.
C37_PagesBoundedDisjoint ==
  /\ (result.op \in PAGED) => Len(result.items) <= result.limit
  /\ (result.pages # <<>> /\ DistinctTimestamps) => DisjointPrefix

\* C37, for the limits that bound a page: with limit >= 0, run_list,
\* run_search and run_timeline return at most limit items; with limit >= 1
\* and pairwise distinct timestamps the pages run_list(limit, 0),
\* run_list(limit, limit), ... hold no observation twice, are together the
\* first observations of the list of all observations, newest first, and
\* are that whole list once they are as many that pages * limit reaches the
\* number of observations.
C37_PagesBoundedDisjointFromOne ==
  /\ (result.op \in PAGED /\ result.limit >= 0)
     => Len(result.items) <= result.limit
  /\ (result.pages # <<>> /\ result.limit >= 1 /\ DistinctTimestamps)
     => /\ DisjointPrefix
        /\ Len(result.pages) * result.limit >= Cardinality(DOMAIN tx.rows)
           => Concat(result.pages) = AllNewestFirst

\* two observations, the second one newer: the pages of limit 1 are the
\* second, the first, and an empty page
C37_Witness ==
  /\ result.op = "run_list"
  /\ result.limit = 1
  /\ DOMAIN tx.rows = {1, 2}
  /\ Stamp(1) = IsoText(1) /\ Stamp(2) = IsoText(2)
  /\ result.pages = << <<2>>, <<1>>, <<>> >>

(***************************************************************************)
(* operations.py: run_list and run_search asked for tags a row carries     *)
(***************************************************************************)

\* the sub-lists of a list
RECURSIVE SubLists(_)
SubLists(tags) ==
  IF tags = <<>> THEN {<<>>}
  ELSE LET rest == SubLists(Tail(tags))
       IN rest \cup {<<Head(tags)>> \o r : r \in rest}

\* required_tags arguments: the non-empty sub-lists of the tag lists the
\* store holds
OWN_TAGS ==
  UNION {SubLists(parse_tags_json(tx.rows[id].tags)) : id \in DOMAIN tx.rows}
  \ {<<>>}

\* operations.run_list called with tags of a stored observation
list_own ==
  /\ pc = "idle"
  /\ phase = "ready"
  /\ \E limit \in PAGE_LIMITS, offset \in PAGE_OFFSETS,
        required_tags \in OWN_TAGS,
        order \in TimestampOrderings(tx, DOMAIN tx.rows) :
       result' = [NoResult EXCEPT !.op = "run_list", !.limit = limit,
                    !.offset = offset, !.required = required_tags,
                    !.order = order,
                    !.items = run_list(tx, limit, offset, required_tags,
                                       order),
                    !.stmts = <<TABLE_SELECT>>]
  /\ call' = [Entered("run_list") EXCEPT !.outcome = "returned"]
  /\ last' = "other"
  /\ UNCHANGED <<disk, tx, in_transaction, fts5, parked, canon, phase, ret, version, store0, pc>>

\* operations.run_search called for "foo" with tags of a stored observation
search_own ==
  /\ pc = "idle"
  /\ phase = "ready"
  /\ \E mode \in MODES, limit \in PAGE_LIMITS, offset \in PAGE_OFFSETS,
        required_tags \in OWN_TAGS :
       \E ftsOrder \in Orderings(FtsIds(tx, <<"f", "o", "o">>)) :
         LET found == run_search(tx, <<"f", "o", "o">>, limit, offset, mode, FALSE,
                                 required_tags, ftsOrder)
         IN /\ result' = [NoResult EXCEPT !.op = "run_search",
                            !.query = <<"f", "o", "o">>, !.mode = mode,
                            !.limit = limit, !.offset = offset,
                            !.raised = found.raised, !.items = found.items,
                            !.required = required_tags, !.order = ftsOrder,
                            !.stmts = found.stmts]
            /\ pc' = IF found.raised THEN "failed" ELSE "idle"
            /\ call' = [Entered("run_search") EXCEPT
                          !.outcome = IF found.raised THEN "NameError"
                                      ELSE "returned"]
            /\ last' = IF found.raised THEN last ELSE "other"
  /\ UNCHANGED <<disk, tx, in_transaction, fts5, parked, canon, phase, ret, version, store0>>

\* one process that adds observations and then asks for some by tags they
\* carry
NextOwnTags ==
  \/ phase = "new" /\ ensure_schema
  \/ phase = "schema" /\ ensure_fts
  \/ SchemaBody
  \/ result = NoResult /\ add_observation
  \/ add_observation_commit
  \/ result = NoResult /\ list_own
  \/ result = NoResult /\ search_own

SpecOwnTags == InitTimeline /\ [][NextOwnTags]_vars

(***************************************************************************)
(* Properties: finding an observation by its tags                          *)
(***************************************************************************)

\* the ids the same call returns when it is given no required_tags: the
\* rows inside the limit/offset window
InWindow ==
  IF result.op = "run_list"
  THEN Range(Window(result.order, result.limit, result.offset))
  ELSE {item.id : item \in
          Range(run_search(tx, result.query, result.limit, result.offset,
                           result.mode, FALSE, <<>>, result.order).items)}

\* C38: an observation can always be found by its own tags.  When run_list
\* or run_search has returned for required_tags that are a non-empty
\* sub-list of the tag list an observation was stored with, and the
\* observation is inside the limit/offset window, the result holds it.
C38_FoundByOwnTags ==
  (/\ result.op \in {"run_list", "run_search"}
   /\ ~result.raised
   /\ result.required # <<>>)
  => \A id \in InWindow :
       result.required \in SubLists(parse_tags_json(tx.rows[id].tags))
       => id \in Range(ResultIds)

\* run_list asked for ["tenant:a", "cache"] returns the observation stored
\* with --tags "tenant:a,cache"
C38_Witness ==
  /\ result.op = "run_list"
  /\ result.required = <<<<"t", "e", "n", "a", "n", "t", ":", "a">>, <<"c", "a", "c", "h", "e">>>>
  /\ 1 \in InWindow
  /\ parse_tags_json(tx.rows[1].tags) = result.required
  /\ 1 \in Range(ResultIds)

(***************************************************************************)
(* Properties: the branch run_search takes in auto mode                    *)
(***************************************************************************)

\* run_search has returned from a call in auto mode with a query that is
\* not blank
AutoReturned ==
  /\ result.op = "run_search"
  /\ result.mode = "auto"
  /\ ~result.raised
  /\ Strip(result.query) # <<>>

\* the rows the index query of the call matches
IndexMatches == FtsIds(tx, Strip(result.query))

\* C39: in auto mode the scan is taken only on an index error.  When
\* run_search returns in auto mode, the index query did not raise and the
\* result is the index result: every item has a score and is a row the
\* index query matches, none twice, and without required tags the result
\* has as many items as the window holds of the matches; so it is when the
\* result is empty and the LIKE scan would match rows.
C39_AutoReturnsIndexResult ==
  AutoReturned
  => /\ ~FtsRaises(tx, Strip(result.query))
     /\ \A k \in DOMAIN result.items : result.items[k].scored
     /\ \A i, j \in DOMAIN ResultIds : i # j => ResultIds[i] # ResultIds[j]
     /\ Range(ResultIds) \subseteq IndexMatches
     /\ result.required = <<>>
        => Len(result.items) = Len(Window(IdsDescending(IndexMatches),
                                          result.limit, result.offset))

\* run_search has returned an empty result in auto mode for a query the
\* LIKE scan matches a row with
C39_Witness ==
  /\ AutoReturned
  /\ result.required = <<>>
  /\ result.offset = 0
  /\ result.items = <<>>
  /\ LikeIds(tx, Strip(result.query)) # {}

====
